---- MODULE Spec2Model ----
(***************************************************************************)
(* pdf2md: the resume field extractor (app/action/dataExtractor.ts), the    *)
(* Excel template filler (app/action/excelGenerator.ts) and the OCR history *)
(* store (app/utils/storageUtils.ts).                                       *)
(*                                                                          *)
(* Text is a sequence of characters.  ASCII characters stand for themselves *)
(* ("1", ":", "(", "-", "@", "|", "E", "m"), white space and Japanese       *)
(* characters are written as upper-case names:                              *)
(*   LF \n   CR \r   SP space   IDSP U+3000 (ideographic space)             *)
(*   LS U+2028 (line separator: white space, and a line terminator that    *)
(*      the dot does not match, but not one of \n \r)                       *)
(*   FCOLON U+FF1A   FLPAREN U+FF08   FRPAREN U+FF09   NAKA U+30FB          *)
(*   POST U+3012 (postal mark)                                              *)
(*   SHI MEI              shimei, name                                      *)
(*   FU RI GA NA          furigana                                          *)
(*   SEI NEN GATSU HI     seinengappi, date of birth; NEN, GATSU and HI are *)
(*                        also the year, month and day marks                *)
(*   MAN .. SAI           man .. sai, full .. years old                     *)
(*   SEX BETSU            seibetsu, gender;  OTOKO male, ONNA female        *)
(*   GEN JUU SHO          genjuusho, present address                        *)
(*   DEN WA BAN GOU       denwa bangou, telephone number                    *)
(*   GAKU REKI            gakureki, education                               *)
(*   SHOKU REKI           shokureki, work history                           *)
(*   MEN KYO NAKA SHIK KAKU   menkyo-shikaku, licences                      *)
(*   KEN KOU JOU TAI      kenkou joutai, health                             *)
(*   SHU MI NAKA TOKU GI  shumi-tokugi, hobbies and skills                  *)
(*   MO YO RI EKI         moyori eki, nearest station                       *)
(*   FUY YOU KAZ ZOKU SUU ( HAI GUU SHA WO NOZO KU )                        *)
(*                        fuyou kazoku suu (haiguusha wo nozoku),           *)
(*                        dependents (spouse excluded)                      *)
(*   HAI GUU SHA NO U MU  haiguusha no umu, spouse                          *)
(*   HAI GUU SHA NO FUY YOU GIM TSUTOME   haiguusha no fuyou gimu,          *)
(*                        duty to support the spouse                        *)
(*   AA RI                ari, yes;   NA SI   nashi, no                     *)
(*   KA KB KC             any other character (kanji, kana, letters)        *)
(***************************************************************************)
EXTENDS Integers, Sequences, FiniteSets, TLC

----------------------------------------------------------------------------
(* Characters and character classes of the regular expressions.            *)

Digits == {"0", "1", "2", "3", "4", "5", "6", "7", "8", "9"}

LineBreaks == {"LF", "CR"}

\* \s of a JavaScript regular expression (without the u flag)
WhiteSpace == {"SP", "IDSP", "LF", "CR", "LS"}

\* the characters the dot does not match
LineTerminators == {"LF", "CR", "LS"}

Colons == {"FCOLON", ":"}

OpenParens == {"FLPAREN", "("}

CloseParens == {"FRPAREN", ")"}

OtherChars == {"KA", "KB", "KC"}

LabelChars ==
    {"SHI", "MEI", "FU", "RI", "GA", "NA", "SEI", "NEN", "GATSU", "HI",
     "MAN", "SAI", "SEX", "BETSU", "OTOKO", "ONNA", "GEN", "JUU", "SHO",
     "POST", "DEN", "WA", "BAN", "GOU", "E", "m", "a", "i", "l",
     "GAKU", "REKI", "SHOKU", "MEN", "KYO", "NAKA", "SHIK", "KAKU",
     "KEN", "KOU", "JOU", "TAI", "SHU", "MI", "TOKU", "GI",
     "MO", "YO", "EKI", "FUY", "YOU", "KAZ", "ZOKU", "SUU",
     "HAI", "GUU", "SHA", "WO", "NOZO", "KU", "NO", "U", "MU",
     "GIM", "TSUTOME", "AA", "SI"}

Alphabet ==
    Digits \cup WhiteSpace \cup Colons \cup OpenParens \cup CloseParens
        \cup OtherChars \cup LabelChars \cup {"-", "@", "|"}

----------------------------------------------------------------------------
(* Regular expressions as syntax trees, and the backtracking matcher of    *)
(* String.prototype.match: a match is the first alternative, in the        *)
(* engine's priority order, at the leftmost starting position.             *)

Lit(s) == [k |-> "lit", s |-> s]

Set(cs) == [k |-> "set", cs |-> cs]

\* a quantified character class: cs*, cs+ and the lazy cs*?
Star(cs) == [k |-> "rep", cs |-> cs, min |-> 0, greedy |-> TRUE]

Plus(cs) == [k |-> "rep", cs |-> cs, min |-> 1, greedy |-> TRUE]

LazyStar(cs) == [k |-> "rep", cs |-> cs, min |-> 0, greedy |-> FALSE]

Cat(rs) == [k |-> "cat", rs |-> rs]

Alt(rs) == [k |-> "alt", rs |-> rs]

Grp(n, r) == [k |-> "grp", n |-> n, r |-> r]

EndOfInput == [k |-> "eoi"]

\* capture groups 1..3, <<0, 0>> while a group has not taken part
NoCaptures == [n \in 1..3 |-> <<0, 0>>]

\* Op applied to the value of v (v is evaluated once)
With(v, Op(_)) == CHOOSE y \in {Op(x) : x \in {v}} : TRUE

\* the sequence f as a tuple, every element evaluated
Tuple(f) == f \o <<>>

RECURSIVE Concat(_)
Concat(ss) ==
    IF Len(ss) = 0 THEN <<>>
    ELSE IF Len(ss) = 1 THEN ss[1]
    ELSE LET half == Len(ss) \div 2
         IN  Concat(SubSeq(ss, 1, half)) \o Concat(SubSeq(ss, half + 1, Len(ss)))

\* the concatenation of a sequence of sequences
Flatten(ss) == With(Tuple(ss), LAMBDA v : Concat(v))

\* the position after the longest run of characters of cs that starts at p
RunEnd(t, p, cs) ==
    CHOOSE q \in p..(Len(t) + 1) :
        /\ \A j \in p..(q - 1) : t[j] \in cs
        /\ q = Len(t) + 1 \/ t[q] \notin cs

\* Every way regular expression r matches text t from position p, in the
\* order the backtracking engine tries them; each is the position after the
\* match and the captures.
RECURSIVE Matches(_, _, _, _)
Matches(r, t, p, c) ==
    CASE r.k = "lit" ->
            IF /\ p + Len(r.s) - 1 <= Len(t)
               /\ SubSeq(t, p, p + Len(r.s) - 1) = r.s
            THEN <<[p |-> p + Len(r.s), c |-> c]>>
            ELSE <<>>
      [] r.k = "set" ->
            IF p <= Len(t) /\ t[p] \in r.cs
            THEN <<[p |-> p + 1, c |-> c]>>
            ELSE <<>>
      [] r.k = "eoi" ->
            IF p = Len(t) + 1 THEN <<[p |-> p, c |-> c]>> ELSE <<>>
      [] r.k = "rep" ->
            \* greedy: the longest run first, then one character less each
            \* time; lazy: the shortest first
            LET first == p + r.min
                last == RunEnd(t, p, r.cs)
            IN  Tuple([i \in 1..(last - first + 1) |->
                    [p |-> IF r.greedy THEN last - (i - 1) ELSE first + (i - 1),
                     c |-> c]])
      [] r.k = "grp" ->
            With(Matches(r.r, t, p, c), LAMBDA ms :
                Tuple([i \in 1..Len(ms) |->
                    [p |-> ms[i].p, c |-> [ms[i].c EXCEPT ![r.n] = <<p, ms[i].p>>]]]))
      [] r.k = "alt" ->
            Flatten([i \in 1..Len(r.rs) |-> Matches(r.rs[i], t, p, c)])
      [] r.k = "cat" ->
            IF r.rs = <<>>
            THEN <<[p |-> p, c |-> c]>>
            ELSE With(<<Matches(Head(r.rs), t, p, c), Cat(Tail(r.rs))>>, LAMBDA h :
                    Flatten([i \in 1..Len(h[1]) |->
                        Matches(h[2], t, h[1][i].p, h[1][i].c)]))

NoMatch == [found |-> FALSE]

\* the leftmost match of r in t at or after position from
SearchFrom(r, t, from) ==
    With({q \in from..(Len(t) + 1) : Matches(r, t, q, NoCaptures) # <<>>},
         LAMBDA starts :
            IF starts = {}
            THEN NoMatch
            ELSE With(CHOOSE q \in starts : \A u \in starts : q <= u, LAMBDA start :
                    With(Matches(r, t, start, NoCaptures)[1], LAMBDA m :
                        [found |-> TRUE, start |-> start, end |-> m.p, c |-> m.c])))

\* text.match(r) for a regular expression without the g flag
Match(t, r) == SearchFrom(r, t, 1)

\* capture group n of a match; the empty text when the group is undefined
\* (the code tests a group for truthiness before it uses it)
Group(t, m, n) == SubSeq(t, m.c[n][1], m.c[n][2] - 1)

\* the whole matched text, m[0]
Whole(t, m) == SubSeq(t, m.start, m.end - 1)

\* text.match(r) for a regular expression with the g flag: the matched
\* texts, left to right, without overlap (<<>> stands for null)
RECURSIVE MatchAllFrom(_, _, _)
MatchAllFrom(r, t, from) ==
    With(SearchFrom(r, t, from), LAMBDA m :
        IF ~m.found
        THEN <<>>
        ELSE <<Whole(t, m)>>
                \o MatchAllFrom(r, t, IF m.end > m.start THEN m.end ELSE m.end + 1))

MatchAll(t, r) == MatchAllFrom(r, t, 1)

\* String.prototype.trim
RECURSIVE TrimLeft(_)
TrimLeft(s) ==
    IF s # <<>> /\ Head(s) \in WhiteSpace THEN TrimLeft(Tail(s)) ELSE s

RECURSIVE TrimRight(_)
TrimRight(s) ==
    IF s # <<>> /\ s[Len(s)] \in WhiteSpace
    THEN TrimRight(SubSeq(s, 1, Len(s) - 1))
    ELSE s

Trim(s) == TrimRight(TrimLeft(s))

DigitValue(d) ==
    CASE d = "0" -> 0 [] d = "1" -> 1 [] d = "2" -> 2 [] d = "3" -> 3
      [] d = "4" -> 4 [] d = "5" -> 5 [] d = "6" -> 6 [] d = "7" -> 7
      [] d = "8" -> 8 [] d = "9" -> 9

\* parseInt(s, 10) of a non-empty run of digits
RECURSIVE ParseInt(_)
ParseInt(s) ==
    IF s = <<>> THEN 0
    ELSE ParseInt(SubSeq(s, 1, Len(s) - 1)) * 10 + DigitValue(s[Len(s)])

\* String.prototype.includes
Includes(s, sub) ==
    \E i \in 1..(Len(s) - Len(sub) + 1) : SubSeq(s, i, i + Len(sub) - 1) = sub

----------------------------------------------------------------------------
(* app/action/dataExtractor.ts                                             *)

\* an optional field of ExtractedResumeData
None == [has |-> FALSE]

Some(v) == [has |-> TRUE, v |-> v]

Colon0 == Star(Colons)

Space0 == Star(WhiteSpace)

RestOfLine == Plus(Alphabet \ LineBreaks)

\* a label, [colons]*, \s*
Label(chars) == <<Lit(chars), Colon0, Space0>>

nameRegex == Cat(Label(<<"SHI", "MEI">>) \o <<Grp(1, RestOfLine)>>)

nameKanaRegex == Cat(Label(<<"FU", "RI", "GA", "NA">>) \o <<Grp(1, RestOfLine)>>)

BirthLabel == <<"SEI", "NEN", "GATSU", "HI">>

birthDateRegex ==
    Cat(Label(BirthLabel) \o <<Grp(1, Plus(Alphabet \ (LineBreaks \cup OpenParens)))>>)

ageRegex ==
    Cat(Label(BirthLabel)
        \o <<Plus(Alphabet \ (LineBreaks \cup OpenParens)), Set(OpenParens), Space0,
             Lit(<<"MAN">>), Space0, Grp(1, Plus(Digits)), Space0,
             Lit(<<"SAI">>)>>)

\* the gender pattern with a capture of any one character
genderAnyCharacter == Cat(Label(<<"SEX", "BETSU">>) \o <<Grp(1, Set(Alphabet))>>)

genderRegex == Cat(Label(<<"SEX", "BETSU">>) \o <<Grp(1, Set({"OTOKO", "ONNA"}))>>)

\* the address pattern with a capture that stops at an opening parenthesis,
\* ([^\n\r FLPAREN (]+)
addressStopsAtParenthesis ==
    Cat(Label(<<"GEN", "JUU", "SHO">>)
        \o <<Grp(1, Plus(Alphabet \ (LineBreaks \cup OpenParens)))>>)

addressRegex ==
    Cat(Label(<<"GEN", "JUU", "SHO">>)
        \o <<Grp(1, RestOfLine), Alt(<<Lit(<<"LF">>), Lit(<<"CR">>), EndOfInput>>)>>)

Digit == Set(Digits)

postalCodeRegex ==
    Cat(<<Lit(<<"POST">>), Space0,
          Grp(1, Cat(<<Digit, Digit, Digit, Lit(<<"-">>), Digit, Digit, Digit, Digit>>))>>)

phoneRegex ==
    Cat(Label(<<"DEN", "WA", "BAN", "GOU">>) \o <<Grp(1, Plus(Digits \cup {"-"}))>>)

emailRegex ==
    Cat(<<Lit(<<"E">>), Alt(<<Set({"-"} \cup WhiteSpace), Cat(<<>>)>>),
          Lit(<<"m", "a", "i", "l">>), Colon0, Space0,
          Grp(1, Cat(<<Plus(Alphabet \ WhiteSpace), Lit(<<"@">>), Plus(Alphabet \ WhiteSpace)>>))>>)

EducationHeader == <<"GAKU", "REKI">>

WorkHeader == <<"SHOKU", "REKI">>

LicenseHeader == <<"MEN", "KYO", "NAKA", "SHIK", "KAKU">>

HealthHeader == <<"KEN", "KOU", "JOU", "TAI">>

HobbiesHeader == <<"SHU", "MI">>

\* header \s* \n ([\s\S]*?) (?: terminators | $ )
SectionRegex(header, terminators) ==
    Cat(<<Lit(header), Space0, Lit(<<"LF">>), Grp(1, LazyStar(Alphabet)),
          Alt([i \in 1..Len(terminators) |-> Lit(terminators[i])] \o <<EndOfInput>>)>>)

\* the education section with a greedy capture, ([\s\S]*)
educationSectionGreedy ==
    Cat(<<Lit(EducationHeader), Space0, Lit(<<"LF">>), Grp(1, Star(Alphabet)),
          Alt(<<Lit(WorkHeader), EndOfInput>>)>>)

educationSectionRegex == SectionRegex(EducationHeader, <<WorkHeader>>)

workSectionRegex ==
    SectionRegex(WorkHeader, <<LicenseHeader, HealthHeader, HobbiesHeader>>)

licenseSectionRegex == SectionRegex(LicenseHeader, <<HealthHeader, HobbiesHeader>>)

\* (\d+)\s*NEN\s*(\d+)\s*GATSU\s*( rest )
EntryRegex(rest) ==
    Cat(<<Grp(1, Plus(Digits)), Space0, Lit(<<"NEN">>), Space0, Grp(2, Plus(Digits)),
          Space0, Lit(<<"GATSU">>), Space0, Grp(3, rest)>>)

entriesRegex == EntryRegex(RestOfLine)

\* the dot matches every character but a line terminator
partsRegex == EntryRegex(Plus(Alphabet \ LineTerminators))

healthRegex == Cat(Label(HealthHeader) \o <<Grp(1, RestOfLine)>>)

hobbiesRegex ==
    Cat(Label(<<"SHU", "MI", "NAKA", "TOKU", "GI">>) \o <<Grp(1, RestOfLine)>>)

stationRegex == Cat(Label(<<"MO", "YO", "RI", "EKI">>) \o <<Grp(1, RestOfLine)>>)

dependentsRegex ==
    Cat(<<Lit(<<"FUY", "YOU", "KAZ", "ZOKU", "SUU">>), Set(OpenParens),
          Lit(<<"HAI", "GUU", "SHA", "WO", "NOZO", "KU">>), Set(CloseParens),
          Colon0, Space0, Grp(1, Plus(Digits))>>)

\* the character class [AA RI | NA SI]
AriNashi == Plus({"AA", "RI", "|", "NA", "SI"})

spouseRegex ==
    Cat(Label(<<"HAI", "GUU", "SHA", "NO", "U", "MU">>) \o <<Grp(1, AriNashi)>>)

supportingSpouseRegex ==
    Cat(Label(<<"HAI", "GUU", "SHA", "NO", "FUY", "YOU", "GIM", "TSUTOME">>)
        \o <<Grp(1, AriNashi)>>)

\* the mapping with the matched text left untrimmed when it has no parts
EntryOfRaw(entry) ==
    With(Match(entry, partsRegex), LAMBDA parts :
        IF parts.found
        THEN [year |-> Group(entry, parts, 1), month |-> Group(entry, parts, 2),
              description |-> Trim(Group(entry, parts, 3))]
        ELSE [year |-> <<>>, month |-> <<>>, description |-> entry])

\* entry => { year, month, description } of the three entry lists
EntryOf(entry) ==
    With(Match(entry, partsRegex), LAMBDA parts :
        IF parts.found
        THEN [year |-> Group(entry, parts, 1), month |-> Group(entry, parts, 2),
              description |-> Trim(Group(entry, parts, 3))]
        ELSE [year |-> <<>>, month |-> <<>>, description |-> Trim(entry)])

\* one of the three entry lists: the section, its entries, each mapped
SectionEntries(allText, sectionRegex) ==
    With(Match(allText, sectionRegex), LAMBDA section :
        IF section.found /\ Group(allText, section, 1) # <<>>
        THEN With(Group(allText, section, 1), LAMBDA sectionText :
                With(MatchAll(sectionText, entriesRegex), LAMBDA entries :
                    IF entries # <<>>
                    THEN Some(Tuple([i \in 1..Len(entries) |-> EntryOf(entries[i])]))
                    ELSE None))
        ELSE None)

\* a field set to the trimmed capture group 1 of the first match
Captured(allText, regex) ==
    With(Match(allText, regex), LAMBDA m :
        IF m.found /\ Group(allText, m, 1) # <<>>
        THEN Some(Trim(Group(allText, m, 1)))
        ELSE None)

\* a number field: parseInt of capture group 1
Number(allText, regex) ==
    With(Match(allText, regex), LAMBDA m :
        IF m.found /\ Group(allText, m, 1) # <<>>
        THEN Some(ParseInt(Group(allText, m, 1)))
        ELSE None)

\* the postal code looked for in the whole text
PostalCodeAnywhere(allText) ==
    With(Match(allText, postalCodeRegex), LAMBDA postalCodeMatch :
        IF postalCodeMatch.found /\ Group(allText, postalCodeMatch, 1) # <<>>
        THEN Some(Group(allText, postalCodeMatch, 1))
        ELSE None)

\* the postal code, looked for in the untrimmed capture of the address
PostalCodeOf(allText) ==
    With(Match(allText, addressRegex), LAMBDA addressMatch :
        With(Group(allText, addressMatch, 1), LAMBDA captured :
            With(Match(captured, postalCodeRegex), LAMBDA postalCodeMatch :
                IF postalCodeMatch.found /\ Group(captured, postalCodeMatch, 1) # <<>>
                THEN Some(Group(captured, postalCodeMatch, 1))
                ELSE None)))

\* a yes/no field that is true only when capture group 1 is AA RI itself
FlagIsAri(allText, regex) ==
    With(Match(allText, regex), LAMBDA m :
        IF m.found /\ Group(allText, m, 1) # <<>>
        THEN Some(Group(allText, m, 1) = <<"AA", "RI">>)
        ELSE None)

\* a yes/no field: whether capture group 1 includes AA RI
Flag(allText, regex) ==
    With(Match(allText, regex), LAMBDA m :
        IF m.found /\ Group(allText, m, 1) # <<>>
        THEN Some(Includes(Group(allText, m, 1), <<"AA", "RI">>))
        ELSE None)

\* the pages' markdown put together with nothing between the pages
JoinPagesNoSeparator(pages) ==
    Flatten([i \in 1..Len(pages) |->
                IF pages[i].hasMarkdown THEN pages[i].markdown ELSE <<>>])

\* pages.map(page => page.markdown || "").join("\n\n")
RECURSIVE JoinPages(_)
JoinPages(pages) ==
    IF pages = <<>> THEN <<>>
    ELSE LET first == IF Head(pages).hasMarkdown THEN Head(pages).markdown ELSE <<>>
         IN  IF Len(pages) = 1 THEN first
             ELSE first \o <<"LF", "LF">> \o JoinPages(Tail(pages))

\* the guard without its test for an empty pages list
NoValidResultSkipsLength(result) ==
    \/ result.kind = "null"
    \/ result.kind = "nopages"

\* the guard of extractResumeData
NoValidResult(result) ==
    \/ result.kind = "null"
    \/ result.kind = "nopages"
    \/ Len(result.pages) = 0

ExtractError == "no valid OCR result"

\* an extraction that gives up at the first pattern without a match: the
\* name pattern is the first one
ExtractFieldsStopsAtMiss(allText) ==
    LET name == Captured(allText, nameRegex)
        none == [f \in {"nameKana", "birthDate", "age", "gender", "address", "postalCode",
                        "phoneNumber", "email", "educationHistory", "workHistory",
                        "licenses", "healthCondition", "hobbies", "nearestStation",
                        "dependents", "hasSpouse", "supportingSpouse"} |-> None]
    IN  IF name.has THEN [name |-> name] @@ none ELSE [name |-> None] @@ none

\* the record extractResumeData returns for the joined text
ExtractFields(allText) ==
    LET birthDate == Captured(allText, birthDateRegex)
        address == Captured(allText, addressRegex)
        \* the age is looked for only when the date of birth matched
        age == IF birthDate.has THEN Number(allText, ageRegex) ELSE None
    IN  [name |-> Captured(allText, nameRegex),
         nameKana |-> Captured(allText, nameKanaRegex),
         birthDate |-> birthDate,
         age |-> age,
         gender |-> Captured(allText, genderRegex),
         address |-> address,
         postalCode |-> IF address.has THEN PostalCodeOf(allText) ELSE None,
         phoneNumber |-> Captured(allText, phoneRegex),
         email |-> Captured(allText, emailRegex),
         educationHistory |-> SectionEntries(allText, educationSectionRegex),
         workHistory |-> SectionEntries(allText, workSectionRegex),
         licenses |-> SectionEntries(allText, licenseSectionRegex),
         healthCondition |-> Captured(allText, healthRegex),
         hobbies |-> Captured(allText, hobbiesRegex),
         nearestStation |-> Captured(allText, stationRegex),
         dependents |-> Number(allText, dependentsRegex),
         hasSpouse |-> Flag(allText, spouseRegex),
         supportingSpouse |-> Flag(allText, supportingSpouseRegex)]

VARIABLES
    ocrResult,      \* the argument of extractResumeData
    extractPc,      \* "ready", "returned" or "thrown"
    extractedData,  \* the record extractResumeData returned
    extractError    \* the message of the error it threw

extractVars == <<ocrResult, extractPc, extractedData, extractError>>

VARIABLES
    storage,        \* localStorage: the item under OCR_RESULTS_STORAGE_KEY
    now,            \* Date.now()
    lastCall        \* the last call of storageUtils and what it returned

storeVars == <<storage, now, lastCall>>

VARIABLES
    resumeData,     \* the argument of generateResumeExcel
    templateSheets, \* the names of the worksheets of the template workbook
    excelPc,        \* where generateResumeExcel is
    worksheet,      \* the value of every cell of Sheet1
    cellWrites,     \* the assignments to cell values, in the order made
    tempFile,       \* whether the file at outputPath exists
    uploads,        \* the number of calls of put
    excelError      \* the message of the error generateResumeExcel threw

excelVars == <<resumeData, templateSheets, excelPc, worksheet, cellWrites, tempFile,
               uploads, excelError>>

VARIABLES
    exportPc,       \* where handleExportToExcel of ExportOptions is
    isExporting,    \* the state isExporting of ExportOptions
    exportError,    \* the state exportError of ExportOptions
    downloads,      \* the number of download links clicked
    exports         \* the number of exports started

exportVars == <<exportPc, isExporting, exportError, downloads, exports>>

VARIABLES
    tabPc,          \* where the call of saveOCRResult of each tab is
    tabExisting,    \* existingResults of the call of each tab
    tabEntry        \* newResult of the call of each tab

tabVars == <<tabPc, tabExisting, tabEntry>>

VARIABLES
    copyingAll,         \* the state copyingAll of OcrResultView
    copyingPage,        \* the state copyingPage of OcrResultView
    copyPending,        \* the calls of clipboard.writeText not yet settled
    copyTimers,         \* the timers of copyToClipboard not yet fired
    clipboardWrites,    \* the number of calls of clipboard.writeText
    visiblePages,       \* the state visiblePages of OcrResultView
    intersecting,       \* the latest intersection event of each page
    currentPageDisplay, \* the state currentPageDisplay of OcrResultView
    displayPending      \* whether the effect on visiblePages has yet to run

viewVars == <<copyingAll, copyingPage, copyPending, copyTimers, clipboardWrites,
              visiblePages, intersecting, currentPageDisplay, displayPending>>

VARIABLES
    transferFields,     \* the state transferFields of DataTransfer
    activeField,        \* the state activeField of DataTransfer
    isCopied,           \* the state isCopied of DataTransfer
    transferTimers,     \* the timers of handleTransferText not yet fired
    selectedText,       \* the property selectedText of DataTransfer
    transferPc,         \* where the rendering of DataTransfer is
    reRenders           \* the renders of the pass that updated the state

transferVars == <<transferFields, activeField, isCopied, transferTimers, selectedText,
                  transferPc, reRenders>>

uiVars == <<tabVars, viewVars, transferVars>>

vars == <<extractVars, storeVars, excelVars, exportVars, uiVars>>

NoData == [name |-> None, nameKana |-> None, birthDate |-> None, age |-> None,
           gender |-> None, address |-> None, postalCode |-> None,
           phoneNumber |-> None, email |-> None, educationHistory |-> None,
           workHistory |-> None, licenses |-> None, healthCondition |-> None,
           hobbies |-> None, nearestStation |-> None, dependents |-> None,
           hasSpouse |-> None, supportingSpouse |-> None]

AllText == JoinPages(ocrResult.pages)

extractResumeData ==
    /\ extractPc = "ready"
    /\ IF NoValidResult(ocrResult)
       THEN /\ extractPc' = "thrown"
            /\ extractError' = ExtractError
            /\ extractedData' = extractedData
       ELSE /\ extractPc' = "returned"
            /\ \E allText \in {AllText} : extractedData' = ExtractFields(allText)
            /\ extractError' = extractError
    /\ ocrResult' = ocrResult
    /\ UNCHANGED <<storeVars, excelVars, exportVars, uiVars>>

----------------------------------------------------------------------------
(* app/action/excelGenerator.ts                                            *)

\* the value of a cell: a string, a number, or what the template holds
StringValue(text) == [type |-> "string", text |-> text, number |-> 0]

NumberValue(n) == [type |-> "number", text |-> <<>>, number |-> n]

TemplateValue == [type |-> "template", text |-> <<>>, number |-> 0]

\* worksheet.getCell(address).value = value, made for a field of the record
Assign(cell, value, field) == [cell |-> cell, value |-> value, field |-> field]

\* if (resumeData.field): the field is set and is not the empty string
Truthy(field) == field.has /\ field.v # <<>>

DigitChar(d) == CHOOSE c \in Digits : DigitValue(c) = d

\* `${n}` of a number that is not negative
RECURSIVE NumberText(_)
NumberText(n) ==
    IF n < 10 THEN <<DigitChar(n)>>
    ELSE NumberText(n \div 10) \o <<DigitChar(n % 10)>>

\* /(\d+)\s*NEN\s*(\d+)\s*GATSU\s*(\d+)\s*HI/
birthDatePartsRegex ==
    Cat(<<Grp(1, Plus(Digits)), Space0, Lit(<<"NEN">>), Space0,
          Grp(2, Plus(Digits)), Space0, Lit(<<"GATSU">>), Space0,
          Grp(3, Plus(Digits)), Space0, Lit(<<"HI">>)>>)

\* `${resumeData.age || ''}`
AgeText(age) == IF age.has /\ age.v # 0 THEN NumberText(age.v) ELSE <<>>

\* the value of A5
BirthDateCell(birthDate, age) ==
    With(Match(birthDate, birthDatePartsRegex), LAMBDA birthDateMatch :
        IF birthDateMatch.found
        THEN Group(birthDate, birthDateMatch, 1) \o <<"NEN", "SP">>
                \o Group(birthDate, birthDateMatch, 2) \o <<"GATSU", "SP">>
                \o Group(birthDate, birthDateMatch, 3)
                \o <<"HI", "SEI", "SP", "FLPAREN", "SP", "MAN", "SP">>
                \o AgeText(age) \o <<"SAI", "SP", "FRPAREN">>
        ELSE birthDate)

\* /POST\s*\d{3}-\d{4}\s*/
postalMarkRegex ==
    Cat(<<Lit(<<"POST">>), Space0, Digit, Digit, Digit, Lit(<<"-">>),
          Digit, Digit, Digit, Digit, Space0>>)

\* text.replace(regex, ''): the first match is taken out
Remove(text, regex) ==
    With(Match(text, regex), LAMBDA m :
        IF m.found
        THEN SubSeq(text, 1, m.start - 1) \o SubSeq(text, m.end, Len(text))
        ELSE text)

\* every scalar cell is cleared when its field is not written
SetCellOrClear(condition, cell, value, field) ==
    IF condition THEN <<Assign(cell, value, field)>>
    ELSE <<Assign(cell, StringValue(<<>>), field)>>

\* if (condition) { worksheet.getCell(cell).value = value }
SetCell(condition, cell, value, field) ==
    IF condition THEN <<Assign(cell, value, field)>> ELSE <<>>

\* the entries of a list that has six rows in the template
FirstSixEntries(entries) ==
    SubSeq(entries, 1, IF Len(entries) < 6 THEN Len(entries) ELSE 6)

\* entries.forEach: every entry, in order
EachEntry(entries) == entries

\* one of the three blocks that write a list, a row per entry
SetRows(list, columns, startRow, field) ==
    IF list.has /\ Len(list.v) > 0
    THEN With(EachEntry(list.v), LAMBDA entries :
            Flatten([i \in 1..Len(entries) |->
                <<Assign(<<columns[1], startRow + i - 1>>,
                         StringValue(entries[i].year), field),
                  Assign(<<columns[2], startRow + i - 1>>,
                         StringValue(entries[i].month), field),
                  Assign(<<columns[3], startRow + i - 1>>,
                         StringValue(entries[i].description), field)>>]))
    ELSE <<>>

\* the yes and the no the wrong way round
SpouseTextInverted(flag) == IF flag THEN <<"NA", "SI">> ELSE <<"AA", "RI">>

\* flag ? 'AA RI' : 'NA SI'
SpouseText(flag) == IF flag THEN <<"AA", "RI">> ELSE <<"NA", "SI">>

\* the assignments of generateResumeExcel to cells, in the order of the code
FillWrites(d) ==
    SetCell(Truthy(d.name), <<"B", 3>>, StringValue(d.name.v), "name")
    \o SetCell(Truthy(d.nameKana), <<"B", 2>>, StringValue(d.nameKana.v), "nameKana")
    \o SetCell(Truthy(d.birthDate), <<"A", 5>>,
               StringValue(BirthDateCell(d.birthDate.v, d.age)), "birthDate")
    \o SetCell(Truthy(d.gender), <<"D", 2>>, StringValue(d.gender.v), "gender")
    \o SetCell(Truthy(d.addressKana), <<"B", 6>>, StringValue(d.addressKana.v),
               "addressKana")
    \o SetCell(Truthy(d.postalCode), <<"B", 7>>,
               StringValue(<<"POST", "SP">> \o d.postalCode.v), "postalCode")
    \o SetCell(Truthy(d.address), <<"A", 7>>,
               StringValue(Remove(d.address.v, postalMarkRegex)), "address")
    \o SetCell(Truthy(d.phoneNumber), <<"F", 6>>, StringValue(d.phoneNumber.v),
               "phoneNumber")
    \o SetCell(Truthy(d.email), <<"F", 7>>, StringValue(d.email.v), "email")
    \o SetRows(d.educationHistory, <<"A", "B", "C">>, 14, "educationHistory")
    \o SetRows(d.workHistory, <<"A", "B", "C">>, 20, "workHistory")
    \o SetRows(d.licenses, <<"I", "J", "K">>, 14, "licenses")
    \o SetCell(Truthy(d.healthCondition), <<"I", 17>>, StringValue(d.healthCondition.v),
               "healthCondition")
    \o SetCell(Truthy(d.hobbies), <<"I", 18>>, StringValue(d.hobbies.v), "hobbies")
    \o SetCell(Truthy(d.nearestStation), <<"I", 19>>, StringValue(d.nearestStation.v),
               "nearestStation")
    \o SetCell(d.dependents.has, <<"L", 17>>, NumberValue(d.dependents.v), "dependents")
    \o SetCell(d.hasSpouse.has, <<"L", 18>>, StringValue(SpouseText(d.hasSpouse.v)),
               "hasSpouse")
    \o SetCell(d.supportingSpouse.has, <<"L", 19>>,
               StringValue(SpouseText(d.supportingSpouse.v)), "supportingSpouse")

\* a cell that keeps the first value assigned to it
CellAfterFirst(writes, cell) ==
    LET at == {i \in 1..Len(writes) : writes[i].cell = cell}
    IN  IF at = {} THEN TemplateValue
        ELSE writes[CHOOSE i \in at : \A j \in at : i <= j].value

\* the value of a cell after the assignments: the last one to the cell, or
\* the value the template has there
CellAfter(writes, cell) ==
    LET at == {i \in 1..Len(writes) : writes[i].cell = cell}
    IN  IF at = {} THEN TemplateValue
        ELSE writes[CHOOSE i \in at : \A j \in at : j <= i].value

\* the test for a missing worksheet is left out
SheetNeverMissing(sheets) == FALSE

\* !workbook.getWorksheet('Sheet1')
SheetMissing(sheets) == "Sheet1" \notin sheets

Sheet1Error == "Sheet1 is not found in the template"

MaxEducation == 7

MaxWork == 2

MaxLicenses == 4

LastRow(startRow, entries) == startRow + entries - 1

\* the cells of Sheet1 that a record of the model can reach
Cells ==
    {<<"B", 3>>, <<"B", 2>>, <<"A", 5>>, <<"D", 2>>, <<"B", 6>>, <<"B", 7>>, <<"A", 7>>,
     <<"F", 6>>, <<"F", 7>>, <<"L", 17>>, <<"L", 18>>, <<"L", 19>>}
        \cup ({"A", "B", "C"} \X (14..LastRow(14, MaxEducation)))
        \cup ({"A", "B", "C"} \X (20..LastRow(20, MaxWork)))
        \cup ({"I", "J", "K"} \X (14..LastRow(14, MaxLicenses)))
        \cup ({"I"} \X (17..19))

Template == [cell \in Cells |-> TemplateValue]

\* the steps of generateResumeExcel; an await ends each of them, and what
\* is awaited resolves or rejects

\* workbook.xlsx.readFile(templateFile), getWorksheet and the assignments
readTemplateAndFill(rejects) ==
    /\ excelPc = "called"
    /\ IF rejects
       THEN /\ excelPc' = "thrown"
            /\ excelError' = "xlsx.readFile"
            /\ UNCHANGED <<worksheet, cellWrites>>
       ELSE IF SheetMissing(templateSheets)
       THEN /\ excelPc' = "thrown"
            /\ excelError' = Sheet1Error
            /\ UNCHANGED <<worksheet, cellWrites>>
       ELSE /\ \E writes \in {FillWrites(resumeData)} :
                    /\ cellWrites' = writes
                    /\ worksheet' = [cell \in Cells |-> CellAfter(writes, cell)]
            /\ excelPc' = "filled"
            /\ excelError' = excelError
    /\ UNCHANGED <<resumeData, templateSheets, tempFile, uploads, extractVars, storeVars, exportVars, uiVars>>

\* workbook.xlsx.writeFile(outputPath); a write that fails may leave a file
writeFile(rejects, leavesFile) ==
    /\ excelPc = "filled"
    /\ IF rejects
       THEN /\ excelPc' = "thrown"
            /\ excelError' = "xlsx.writeFile"
            /\ tempFile' = leavesFile
       ELSE /\ excelPc' = "written"
            /\ excelError' = excelError
            /\ tempFile' = TRUE
    /\ UNCHANGED <<resumeData, templateSheets, worksheet, cellWrites, uploads,
                   extractVars, storeVars, exportVars, uiVars>>

\* fs.promises.readFile(outputPath)
readFile(rejects) ==
    /\ excelPc = "written"
    /\ excelPc' = IF rejects THEN "thrown" ELSE "read"
    /\ excelError' = IF rejects THEN "fs.readFile" ELSE excelError
    /\ UNCHANGED <<resumeData, templateSheets, worksheet, cellWrites, tempFile, uploads,
                   extractVars, storeVars, exportVars, uiVars>>

\* an upload that is tried again when it fails
putRetries(rejects) ==
    /\ excelPc = "read"
    /\ excelPc' = IF rejects THEN "read" ELSE "uploaded"
    /\ excelError' = IF rejects THEN "put" ELSE excelError
    /\ uploads' = IF rejects THEN uploads ELSE uploads + 1
    /\ UNCHANGED <<resumeData, templateSheets, worksheet, cellWrites, tempFile,
                   extractVars, storeVars, exportVars, uiVars>>

\* put(`resumes/...`, file, ...)
put(rejects) ==
    /\ excelPc = "read"
    /\ excelPc' = IF rejects THEN "thrown" ELSE "uploaded"
    /\ excelError' = IF rejects THEN "put" ELSE excelError
    /\ uploads' = IF rejects THEN uploads ELSE uploads + 1
    /\ UNCHANGED <<resumeData, templateSheets, worksheet, cellWrites, tempFile,
                   extractVars, storeVars, exportVars, uiVars>>

\* fs.promises.unlink(outputPath) and return blob.url
unlink(rejects) ==
    /\ excelPc = "uploaded"
    /\ excelPc' = IF rejects THEN "thrown" ELSE "returned"
    /\ excelError' = IF rejects THEN "fs.unlink" ELSE excelError
    /\ tempFile' = IF rejects THEN tempFile ELSE FALSE
    /\ UNCHANGED <<resumeData, templateSheets, worksheet, cellWrites, uploads,
                   extractVars, storeVars, exportVars, uiVars>>

NoResume ==
    [name |-> None, nameKana |-> None, birthDate |-> None, age |-> None,
     gender |-> None, address |-> None, addressKana |-> None, postalCode |-> None,
     phoneNumber |-> None, email |-> None, educationHistory |-> None,
     workHistory |-> None, licenses |-> None, healthCondition |-> None,
     hobbies |-> None, nearestStation |-> None, dependents |-> None,
     hasSpouse |-> None, supportingSpouse |-> None]

ExportIdle ==
    /\ exportPc = "idle"
    /\ isExporting = FALSE
    /\ exportError = None
    /\ downloads = 0
    /\ exports = 0

ExcelIdle ==
    /\ resumeData = NoResume
    /\ templateSheets = {"Sheet1"}
    /\ excelPc = "idle"
    /\ worksheet = Template
    /\ cellWrites = <<>>
    /\ tempFile = FALSE
    /\ uploads = 0
    /\ excelError = ""

----------------------------------------------------------------------------
(* app/components/ExportOptions.tsx                                        *)

\* the message is lost: the fallback text is shown for every error
UnknownErrorMessage(message) == "unknown error"

\* error instanceof Error ? error.message : the fallback text
ExportErrorMessage(message) == message

\* the message of an error thrown while the download link is made and clicked
DownloadError == "download"

\* the record extractResumeData returned as the argument of
\* generateResumeExcel; the extractor never sets addressKana
ResumeOf(data) ==
    [name |-> data.name, nameKana |-> data.nameKana, birthDate |-> data.birthDate,
     age |-> data.age, gender |-> data.gender, address |-> data.address,
     addressKana |-> None, postalCode |-> data.postalCode,
     phoneNumber |-> data.phoneNumber, email |-> data.email,
     educationHistory |-> data.educationHistory, workHistory |-> data.workHistory,
     licenses |-> data.licenses, healthCondition |-> data.healthCondition,
     hobbies |-> data.hobbies, nearestStation |-> data.nearestStation,
     dependents |-> data.dependents, hasSpouse |-> data.hasSpouse,
     supportingSpouse |-> data.supportingSpouse]

MaxExports == 2

\* handleExportToExcel up to its first await: the button is rendered when
\* ocrResult is not null and is disabled while isExporting
\* a start of an export that leaves the error of the last export in place
handleExportKeepsError ==
    /\ ~isExporting
    /\ ocrResult.kind # "null"
    /\ exports < MaxExports
    /\ exports' = exports + 1
    /\ isExporting' = TRUE
    /\ exportError' = exportError
    /\ exportPc' = "extracting"
    /\ extractPc' = "ready"
    /\ extractedData' = NoData
    /\ extractError' = ""
    /\ UNCHANGED <<ocrResult, downloads, storeVars, excelVars, uiVars>>

\* a click on the button, which is disabled while isExporting; the handler
\* returns at once without an OCR result
handleExportToExcel ==
    /\ ~isExporting
    /\ ocrResult.kind # "null"
    /\ exports < MaxExports
    /\ exports' = exports + 1
    /\ isExporting' = TRUE
    /\ exportError' = None
    /\ exportPc' = "extracting"
    /\ extractPc' = "ready"
    /\ extractedData' = NoData
    /\ extractError' = ""
    /\ UNCHANGED <<ocrResult, downloads, storeVars, excelVars, uiVars>>

\* await extractResumeData(ocrResult) has settled: the catch and the finally
\* blocks, or the call of generateResumeExcel (outputPath is a new path)
extractionSettled ==
    /\ exportPc = "extracting"
    /\ extractPc \in {"returned", "thrown"}
    /\ IF extractPc = "thrown"
       THEN /\ exportError' = Some(ExportErrorMessage(extractError))
            /\ isExporting' = FALSE
            /\ exportPc' = "idle"
            /\ UNCHANGED excelVars
       ELSE /\ exportPc' = "generating"
            /\ resumeData' = ResumeOf(extractedData)
            /\ excelPc' = "called"
            /\ worksheet' = Template
            /\ cellWrites' = <<>>
            /\ tempFile' = FALSE
            /\ excelError' = ""
            /\ UNCHANGED <<templateSheets, uploads, isExporting, exportError>>
    /\ UNCHANGED <<downloads, exports, extractVars, storeVars, uiVars>>

\* await generateResumeExcel(resumeData) has settled: the download link is
\* clicked, or the catch block; then the finally block
generationSettled(clickThrows) ==
    /\ exportPc = "generating"
    /\ excelPc \in {"returned", "thrown"}
    /\ IF excelPc = "thrown"
       THEN /\ exportError' = Some(ExportErrorMessage(excelError))
            /\ downloads' = downloads
       ELSE IF clickThrows
       THEN /\ exportError' = Some(ExportErrorMessage(DownloadError))
            /\ downloads' = downloads
       ELSE /\ exportError' = exportError
            /\ downloads' = downloads + 1
    /\ isExporting' = FALSE
    /\ exportPc' = "idle"
    /\ UNCHANGED <<exports, extractVars, storeVars, excelVars, uiVars>>

----------------------------------------------------------------------------
(* app/utils/storageUtils.ts                                               *)

\* the item of localStorage is absent (getItem gives null) or holds a
\* string: the JSON text of an array, the empty string, a text that is not
\* JSON, or the JSON text of null, of a number, of an object or of a string
NoItem == [json |-> "none", items |-> <<>>]

\* JSON.stringify of an array of stored results
JSONstringify(results) == [json |-> "array", items |-> results]

\* a string that is not the JSON text of an array; the JSON text of a string
\* holds the characters of the string
OtherItem(json, items) == [json |-> json, items |-> items]

\* JSON.parse of the item throws a SyntaxError
ParseThrows(item) == item.json = "invalid"

\* JSON.parse of the item: a value of JavaScript
JSONparse(item) == [type |-> item.json, items |-> item.items]

EmptyArray == [type |-> "array", items |-> <<>>]

\* the spread [...value] of the value is defined: an array or a string
Iterable(value) == value.type \in {"array", "string"}

\* value.find and value.filter are functions
IsArray(value) == value.type = "array"

\* an element null of a stored array, and a character of a stored string
\* (its id is undefined)
NullElement == [id |-> <<0, "null">>, timestamp |-> 0, filename |-> "",
                result |-> [kind |-> "null", pages |-> <<>>]]

CharElement == [id |-> <<0, "undefined">>, timestamp |-> 0, filename |-> "",
                result |-> [kind |-> "null", pages |-> <<>>]]

\* what the body of getStoredOCRResults returns; a getItem or a JSON.parse
\* that throws is caught
StoredResults(getItemThrows) ==
    IF getItemThrows THEN EmptyArray
    ELSE IF storage.json \in {"none", "empty"} THEN EmptyArray
    ELSE IF ParseThrows(storage) THEN EmptyArray
    ELSE JSONparse(storage)

\* the read failed: getItem or JSON.parse threw
ReadFailed(getItemThrows) ==
    getItemThrows \/ (storage.json \notin {"none", "empty"} /\ ParseThrows(storage))

\* Date.now().toString(36) + Math.random().toString(36).substring(2)
generateUniqueId(random) == <<now, random>>

\* the outcomes of Math.random() that the model tells apart: two entries
\* saved at the same time have the same id when the outcomes are the same
RandomSuffixes == {"r0"}

Filenames == {"resume.pdf"}

\* the OCR responses that are saved
SavedResults == {[kind |-> "doc", pages |-> <<[hasMarkdown |-> TRUE, markdown |-> <<"KA">>]>>]}

\* the entries kept with no limit on their number
KeepAll(updatedResults) == updatedResults

\* updatedResults.slice(0, 10)
LimitedResults(updatedResults) ==
    SubSeq(updatedResults, 1, IF Len(updatedResults) < 10 THEN Len(updatedResults) ELSE 10)

\* the new entry put after the existing ones
AppendNew(newResult, existingResults) == existingResults \o <<newResult>>

\* [newResult, ...existingResults]
UpdatedResults(newResult, existingResults) == <<newResult>> \o existingResults

NoEntry == [id |-> <<0, "none">>, timestamp |-> 0, filename |-> "",
            result |-> [kind |-> "null", pages |-> <<>>]]

\* a call: what it did (stored, evicted), what it returned (entry, list,
\* returned) or that it threw, and whether a call of localStorage or of
\* JSON.parse failed in it
NoCall == [op |-> "none", stored |-> FALSE, evicted |-> FALSE, entry |-> NoEntry,
           returned |-> FALSE, list |-> EmptyArray, threw |-> FALSE,
           readFailed |-> FALSE, writeFailed |-> FALSE, kept |-> TRUE]

\* [newResult, ...existingResults] throws a TypeError
SpreadThrows(value) == ~Iterable(value)

\* saveOCRResult(result, filename); setItem stores the list or throws (the
\* quota is exceeded), and the error is caught and logged
saveOCRResult(result, filename, random, getItemThrows, setItemThrows) ==
    LET existingResults == StoredResults(getItemThrows)
        newResult == [id |-> generateUniqueId(random), timestamp |-> now,
                      filename |-> filename, result |-> result]
    IN  IF SpreadThrows(existingResults)
        THEN /\ lastCall' = [NoCall EXCEPT !.op = "save", !.threw = TRUE]
             /\ UNCHANGED <<storage, now, extractVars, excelVars, exportVars, uiVars>>
        ELSE LET updatedResults == UpdatedResults(newResult, existingResults.items)
                 limitedResults == LimitedResults(updatedResults)
             IN  /\ storage' = IF setItemThrows THEN storage
                               ELSE JSONstringify(limitedResults)
                 /\ lastCall' = [NoCall EXCEPT
                        !.op = "save", !.stored = ~setItemThrows,
                        !.evicted = Len(updatedResults) > Len(limitedResults),
                        !.entry = newResult, !.returned = TRUE,
                        !.readFailed = ReadFailed(getItemThrows),
                        !.writeFailed = setItemThrows,
                        !.kept = setItemThrows]
                 /\ UNCHANGED <<now, extractVars, excelVars, exportVars, uiVars>>

\* getStoredOCRResults()
getStoredOCRResults(getItemThrows) ==
    /\ lastCall' = [NoCall EXCEPT !.op = "get", !.returned = TRUE,
                                   !.list = StoredResults(getItemThrows),
                                   !.readFailed = ReadFailed(getItemThrows)]
    /\ UNCHANGED <<storage, now, extractVars, excelVars, exportVars, uiVars>>

\* the first index at which results.find(result => result.id === id) stops:
\* an element with the id, or an element null, whose id cannot be read
FindStops(results, id) ==
    {i \in 1..Len(results) : results[i].id = id \/ results[i] = NullElement}

\* getStoredOCRResultById(id)
getStoredOCRResultById(id, getItemThrows) ==
    LET results == StoredResults(getItemThrows)
        stops == FindStops(results.items, id)
        first == CHOOSE i \in stops : \A j \in stops : i <= j
    IN  /\ lastCall' =
            IF ~IsArray(results)
            THEN [NoCall EXCEPT !.op = "getById", !.threw = TRUE]
            ELSE IF stops = {}
            THEN [NoCall EXCEPT !.op = "getById",
                                !.readFailed = ReadFailed(getItemThrows)]
            ELSE IF results.items[first] = NullElement
            THEN [NoCall EXCEPT !.op = "getById", !.threw = TRUE]
            ELSE [NoCall EXCEPT !.op = "getById", !.returned = TRUE,
                                !.entry = results.items[first],
                                !.readFailed = ReadFailed(getItemThrows)]
        /\ UNCHANGED <<storage, now, extractVars, excelVars, exportVars, uiVars>>

\* a filter that drops only the first entry with the id
FilterOutFirst(results, id) ==
    IF \A i \in 1..Len(results) : results[i].id # id THEN results
    ELSE LET first == CHOOSE i \in 1..Len(results) :
                        /\ results[i].id = id
                        /\ \A j \in 1..(i - 1) : results[j].id # id
         IN  SubSeq(results, 1, first - 1) \o SubSeq(results, first + 1, Len(results))

\* results.filter(result => result.id !== id)
FilterOut(results, id) == SelectSeq(results, LAMBDA result : result.id # id)

\* results.filter throws a TypeError (caught): results is no array, or an
\* element is null
FilterThrows(results) ==
    ~IsArray(results) \/ \E i \in 1..Len(results.items) : results.items[i] = NullElement

deleteStoredOCRResult(id, getItemThrows, setItemThrows) ==
    LET results == StoredResults(getItemThrows)
        filteredResults == FilterOut(results.items, id)
        failed == [NoCall EXCEPT !.op = "delete",
                                 !.readFailed = ReadFailed(getItemThrows)]
    IN  IF FilterThrows(results) \/ Len(results.items) = Len(filteredResults)
        THEN /\ lastCall' = failed
             /\ UNCHANGED <<storage, now, extractVars, excelVars, exportVars, uiVars>>
        ELSE /\ storage' = IF setItemThrows THEN storage
                           ELSE JSONstringify(filteredResults)
             /\ lastCall' = [failed EXCEPT !.stored = ~setItemThrows,
                                           !.returned = ~setItemThrows,
                                           !.writeFailed = setItemThrows,
                                           !.kept = setItemThrows]
             /\ UNCHANGED <<now, extractVars, excelVars, exportVars, uiVars>>

clearAllStoredOCRResults(removeItemThrows) ==
    /\ storage' = IF removeItemThrows THEN storage ELSE NoItem
    /\ lastCall' = [NoCall EXCEPT !.op = "clear", !.stored = ~removeItemThrows,
                                   !.returned = ~removeItemThrows,
                                   !.writeFailed = removeItemThrows,
                                   !.kept = removeItemThrows \/ storage = NoItem]
    /\ UNCHANGED <<now, extractVars, excelVars, exportVars, uiVars>>

\* the clock advances between calls
MaxNow == 2

Tick ==
    /\ now < MaxNow
    /\ now' = now + 1
    /\ UNCHANGED <<storage, lastCall, extractVars, excelVars, exportVars, uiVars>>

\* the tabs of the browser that show the application
Tabs == {"a", "b"}

\* no tab is saving
TabsIdle ==
    /\ tabPc = [t \in Tabs |-> "idle"]
    /\ tabExisting = [t \in Tabs |-> <<>>]
    /\ tabEntry = [t \in Tabs |-> NoEntry]

\* the page indexes that the view may show
MaxViewPages == 3

ViewPages == 0..(MaxViewPages - 1)

\* what copyToClipboard is called with: a page index, or null (all pages),
\* which is written as the index before the first
CopyAll == 0 - 1

CopyTargets == {CopyAll} \cup ViewPages

\* what a timer of copyToClipboard resets: copyingAll, copyingPage, nothing
TimerKinds == {"all", "page", "none"}

\* OcrResultView as mounted
ViewIdle ==
    /\ copyingAll = FALSE
    /\ copyingPage = None
    /\ copyPending = [c \in CopyTargets |-> 0]
    /\ copyTimers = [k \in TimerKinds |-> 0]
    /\ clipboardWrites = 0
    /\ visiblePages = <<>>
    /\ intersecting = [p \in ViewPages |-> "none"]
    /\ currentPageDisplay = NumberText(1)
    /\ displayPending = FALSE

\* the keys of transferFields
TransferFieldNames ==
    {"name", "nameKana", "birthDate", "gender", "address", "addressKana",
     "postalCode", "phoneNumber", "email"}

\* DataTransfer as mounted
TransferIdle ==
    /\ transferFields = [f \in TransferFieldNames |-> <<>>]
    /\ activeField = None
    /\ isCopied = [f \in TransferFieldNames |-> FALSE]
    /\ transferTimers = {}
    /\ selectedText = None
    /\ transferPc = "rendered"
    /\ reRenders = 0

UiIdle == TabsIdle /\ ViewIdle /\ TransferIdle

StoreIdle ==
    /\ storage = NoItem
    /\ now = 0
    /\ lastCall = NoCall

ExtractIdle ==
    /\ ocrResult = [kind |-> "null", pages |-> <<>>]
    /\ extractPc = "ready"
    /\ extractedData = NoData
    /\ extractError = ""

StoreInit == StoreIdle /\ ExtractIdle /\ ExcelIdle /\ ExportIdle /\ UiIdle

StoreNext ==
    \/ \E d \in SavedResults, f \in Filenames, r \in RandomSuffixes,
          g \in BOOLEAN, t \in BOOLEAN :
            saveOCRResult(d, f, r, g, t)
    \/ \E g \in BOOLEAN : getStoredOCRResults(g)
    \/ \E n \in 0..MaxNow, r \in RandomSuffixes, g \in BOOLEAN :
            getStoredOCRResultById(<<n, r>>, g)
    \/ \E n \in 0..MaxNow, r \in RandomSuffixes, g \in BOOLEAN, t \in BOOLEAN :
            deleteStoredOCRResult(<<n, r>>, g, t)
    \/ \E t \in BOOLEAN : clearAllStoredOCRResults(t)
    \/ Tick

SpecStore == StoreInit /\ [][StoreNext]_vars

\* an entry saved before, at time 0
OldEntry ==
    [id |-> <<0, "r0">>, timestamp |-> 0, filename |-> "resume.pdf",
     result |-> [kind |-> "doc", pages |-> <<[hasMarkdown |-> TRUE, markdown |-> <<"KA">>]>>]]

\* what the history key may hold when anything may have written it
StoredStrings ==
    {NoItem, OtherItem("empty", <<>>), OtherItem("invalid", <<>>),
     OtherItem("null", <<>>), OtherItem("number", <<>>), OtherItem("object", <<>>),
     OtherItem("string", <<CharElement>>),
     JSONstringify(<<>>), JSONstringify(<<OldEntry>>),
     JSONstringify(<<NullElement>>), JSONstringify(<<OldEntry, NullElement>>),
     JSONstringify(<<NullElement, OldEntry>>)}

AnyStoreInit ==
    /\ storage \in StoredStrings
    /\ now = 0
    /\ lastCall = NoCall
    /\ ExtractIdle
    /\ ExcelIdle
    /\ ExportIdle
    /\ UiIdle

SpecAnyStore == AnyStoreInit /\ [][StoreNext]_vars

----------------------------------------------------------------------------
(* app/utils/storageUtils.ts: saveOCRResult called in two tabs at once.    *)
(* A call of getItem or of setItem is one step; the steps of the calls of  *)
(* two tabs interleave.                                                    *)

\* updatedResults.slice(0, 10): the number of entries kept
StoredLimit == 10

\* Math.random() of each tab, and the file each tab converted
TabRandom == [t \in Tabs |-> IF t = "a" THEN "ra" ELSE "rb"]

TabFile == [t \in Tabs |-> IF t = "a" THEN "a.pdf" ELSE "b.pdf"]

\* the entries in the history before the tabs save, the newest first
StoredBefore(k) ==
    [i \in 1..k |-> [id |-> <<0 - i, "r0">>, timestamp |-> 0 - i,
                     filename |-> "resume.pdf",
                     result |-> [kind |-> "doc", pages |-> <<[hasMarkdown |-> TRUE, markdown |-> <<"KA">>]>>]]]

\* the history holds no more entries than saveOCRResult keeps
MaxStoredBefore == StoredLimit

\* lines 20 to 28: the tab reads the history and builds its entry
tabGetStored(t) ==
    /\ tabPc[t] = "idle"
    /\ ~SpreadThrows(StoredResults(FALSE))
    /\ tabExisting' = [tabExisting EXCEPT ![t] = StoredResults(FALSE).items]
    /\ tabEntry' = [tabEntry EXCEPT ![t] =
                       [id |-> generateUniqueId(TabRandom[t]), timestamp |-> now,
                        filename |-> TabFile[t],
                        result |-> [kind |-> "doc", pages |-> <<[hasMarkdown |-> TRUE, markdown |-> <<"KA">>]>>]]]
    /\ tabPc' = [tabPc EXCEPT ![t] = "read"]
    /\ UNCHANGED <<storeVars, extractVars, excelVars, exportVars, viewVars, transferVars>>

\* the tab stores its entry only, without what it read
tabSetItemOwnEntry(t, setItemThrows) ==
    /\ tabPc[t] = "read"
    /\ storage' = IF setItemThrows THEN storage ELSE JSONstringify(<<tabEntry[t]>>)
    /\ tabPc' = [tabPc EXCEPT ![t] = IF setItemThrows THEN "failed" ELSE "stored"]
    /\ UNCHANGED <<now, lastCall, tabExisting, tabEntry, extractVars, excelVars, exportVars,
                   viewVars, transferVars>>

\* lines 31 to 42: the tab stores the list it built from what it read;
\* setItem stores it or throws, and the error is caught
tabSetItem(t, setItemThrows) ==
    LET updatedResults == UpdatedResults(tabEntry[t], tabExisting[t])
        limitedResults == LimitedResults(updatedResults)
    IN  /\ tabPc[t] = "read"
        /\ storage' = IF setItemThrows THEN storage ELSE JSONstringify(limitedResults)
        /\ tabPc' = [tabPc EXCEPT ![t] = IF setItemThrows THEN "failed" ELSE "stored"]
        /\ UNCHANGED <<now, lastCall, tabExisting, tabEntry, extractVars, excelVars, exportVars,
                       viewVars, transferVars>>

TabsInit ==
    /\ \E k \in 0..MaxStoredBefore :
          storage = IF k = 0 THEN NoItem ELSE JSONstringify(StoredBefore(k))
    /\ now = 0
    /\ lastCall = NoCall
    /\ UiIdle
    /\ ExtractIdle
    /\ ExcelIdle
    /\ ExportIdle

TabsNext ==
    \/ \E t \in Tabs : tabGetStored(t)
    \/ \E t \in Tabs, setItemThrows \in BOOLEAN : tabSetItem(t, setItemThrows)
    \/ Tick

SpecTabs == TabsInit /\ [][TabsNext]_vars

----------------------------------------------------------------------------
(* The OCR results extractResumeData is applied to.                        *)

NullResult == [kind |-> "null", pages |-> <<>>]

NoPagesResult == [kind |-> "nopages", pages |-> <<>>]

Doc(pages) == [kind |-> "doc", pages |-> pages]

Page(markdown) == [hasMarkdown |-> TRUE, markdown |-> markdown]

NoMarkdownPage == [hasMarkdown |-> FALSE, markdown |-> <<>>]

\* the texts made of at most n of the fragments
Texts(fragments, n) ==
    UNION {{Flatten(f) : f \in [1..k -> fragments]} : k \in 0..n}

MaxNameFragments == 4

NameFragments ==
    {<<"SHI", "MEI">>, <<"FCOLON">>, <<":">>, <<"SP">>, <<"LF">>, <<"KA", "KB">>}

NameDocs == {Doc(<<Page(t)>>) : t \in Texts(NameFragments, MaxNameFragments)}

MaxPages == 2

PageChoices ==
    {NoMarkdownPage, Page(<<>>), Page(<<"SHI", "MEI", "FCOLON", "KA">>), Page(<<"KB", "LF">>)}

PagedDocs ==
    {NullResult, NoPagesResult}
        \cup UNION {{Doc(ps) : ps \in [1..k -> PageChoices]} : k \in 0..MaxPages}

MaxBirthFragments == 4

\* SEI NEN GATSU HI FCOLON 1990 NEN 5 GATSU 3 HI: the label and a date
BirthLabelAndDate ==
    BirthLabel \o <<"FCOLON", "1", "9", "9", "0", "NEN", "5", "GATSU", "3", "HI">>

BirthFragments ==
    {BirthLabelAndDate, BirthLabel, <<"FCOLON">>, <<"LF">>, <<"SP">>,
     <<"FLPAREN", "MAN", "3", "4", "SAI", "FRPAREN">>,
     <<"(", "SP", "MAN", "SP", "5", "SP", "SAI">>}

BirthDocs == {Doc(<<Page(t)>>) : t \in Texts(BirthFragments, MaxBirthFragments)}

MaxEducationLines == 3

\* lines "<digits> NEN <digits> GATSU SP <description>"
EntryLines ==
    {[year |-> <<"2", "0", "1", "0">>, month |-> <<"4">>, description |-> <<"KA", "KB">>],
     [year |-> <<"9", "8">>, month |-> <<"1", "2">>,
      description |-> <<"KA", "SP", "KB", "SP">>],
     [year |-> <<"2", "0", "1", "3">>, month |-> <<"3">>,
      description |-> <<"2", "0", "1", "2", "NEN", "3", "GATSU", "KC">>]}

LineText(line) ==
    line.year \o <<"NEN">> \o line.month \o <<"GATSU", "SP">> \o line.description \o <<"LF">>

LinesText(lines) == Flatten([i \in 1..Len(lines) |-> LineText(lines[i])])

EducationLines == UNION {[1..k -> EntryLines] : k \in 0..MaxEducationLines}

\* what comes before the education header, between the header and its line
\* break, and after the work header
BeforeEducation == {<<>>, <<"SHI", "MEI", "FCOLON", "KA", "LF">>}

AfterHeader == {<<>>, <<"SP">>}

AfterWorkHeader ==
    {<<>>, <<"LF", "2", "0", "1", "5", "NEN", "4", "GATSU", "SP", "KC", "LF">>}

EducationText(before, gap, lines, after) ==
    before \o EducationHeader \o gap \o <<"LF">> \o LinesText(lines) \o WorkHeader \o after

EducationDocs ==
    {Doc(<<Page(EducationText(b, g, ls, a))>>) :
        b \in BeforeEducation, g \in AfterHeader, ls \in EducationLines,
        a \in AfterWorkHeader}

ExtractInit ==
    /\ ocrResult \in PagedDocs \cup NameDocs \cup BirthDocs \cup EducationDocs
    /\ extractPc = "ready"
    /\ extractedData = NoData
    /\ extractError = ""
    /\ StoreIdle
    /\ ExcelIdle
    /\ ExportIdle
    /\ UiIdle

ExtractNext == extractResumeData

SpecExtract == ExtractInit /\ [][ExtractNext]_vars

(***************************************************************************)
(* Texts for the single-line fields and for the three sections.            *)
(***************************************************************************)

MaxGenderFragments == 4

GenderLabel == <<"SEX", "BETSU">>

GenderFragments ==
    {GenderLabel, GenderLabel \o <<"FCOLON">>, <<"SP">>, <<"OTOKO">>, <<"ONNA">>, <<"KA">>}

GenderDocs == {Doc(<<Page(t)>>) : t \in Texts(GenderFragments, MaxGenderFragments)}

MaxAddressFragments == 4

AddressLabel == <<"GEN", "JUU", "SHO">>

\* POST SP 123-4567: the postal mark, a space and a code
PostalText == <<"POST", "SP", "1", "2", "3", "-", "4", "5", "6", "7">>

AddressFragments ==
    {AddressLabel \o <<"FCOLON">>, PostalText, <<"SP">>, <<"KA">>, <<"(", "KB">>, <<"LF">>}

AddressDocs == {Doc(<<Page(t)>>) : t \in Texts(AddressFragments, MaxAddressFragments)}

MaxSpouseFragments == 4

SpouseLabel == <<"HAI", "GUU", "SHA", "NO", "U", "MU">>

SupportingSpouseLabel == <<"HAI", "GUU", "SHA", "NO", "FUY", "YOU", "GIM", "TSUTOME">>

SpouseFragments ==
    {SpouseLabel \o <<"FCOLON">>, SupportingSpouseLabel \o <<"FCOLON">>,
     <<"AA">>, <<"RI">>, <<"NA", "SI">>, <<"|">>}

SpouseDocs == {Doc(<<Page(t)>>) : t \in Texts(SpouseFragments, MaxSpouseFragments)}

MaxSections == 3

SectionHeaders == {EducationHeader, WorkHeader, LicenseHeader, HealthHeader}

\* the entry line of the k-th section of a text: 201k NEN 4 GATSU SP KA
SectionLine(k) ==
    [year |-> <<"2", "0", "1", DigitChar(k)>>, month |-> <<"4">>, description |-> <<"KA">>]

\* a header line, followed by the entry line of the section or by nothing
SectionText(section, k) ==
    section.header \o <<"LF">> \o (IF section.hasLine THEN LineText(SectionLine(k)) ELSE <<>>)

Sections == [header : SectionHeaders, hasLine : BOOLEAN]

SectionsText(sections) ==
    Flatten([k \in 1..Len(sections) |-> SectionText(sections[k], k)])

SectionLists == UNION {[1..k -> Sections] : k \in 0..MaxSections}

SectionDocs == {Doc(<<Page(SectionsText(ss))>>) : ss \in SectionLists}

MaxEntryRows == 2

\* what follows the month mark of a row
RowEnds ==
    {<<"SP", "KA", "LF">>, <<"SP">>, <<"LS">>, <<"KA", "LS", "KB", "LF">>,
     <<"SP", "LS">>, <<"LF">>, <<"LF", "LS">>}

\* the k-th row of a section: 201k NEN 4 GATSU and what follows
RowText(k, rowEnd) == <<"2", "0", "1", DigitChar(k), "NEN", "4", "GATSU">> \o rowEnd

RowsText(rowEnds) == Flatten([k \in 1..Len(rowEnds) |-> RowText(k, rowEnds[k])])

\* an education section whose rows end in every way
EntryDocs ==
    {Doc(<<Page(EducationHeader \o <<"LF">> \o RowsText(rs))>>) :
        rs \in UNION {[1..k -> RowEnds] : k \in 0..MaxEntryRows}}

FieldsInit ==
    /\ ocrResult \in BirthDocs \cup GenderDocs \cup AddressDocs \cup SpouseDocs
                        \cup SectionDocs \cup EntryDocs
    /\ extractPc = "ready"
    /\ extractedData = NoData
    /\ extractError = ""
    /\ StoreIdle
    /\ ExcelIdle
    /\ ExportIdle
    /\ UiIdle

SpecFields == FieldsInit /\ [][ExtractNext]_vars

----------------------------------------------------------------------------
(* The records and the templates generateResumeExcel is applied to.        *)

\* entry i of a list; the years of a list begin with the list's prefix
Entry(prefix, mark, i) ==
    [year |-> prefix \o <<DigitChar(i)>>, month |-> <<DigitChar(i)>>,
     description |-> <<mark, DigitChar(i)>>]

\* a list that is unset, or holds 0..n entries
Lists(prefix, mark, n) ==
    {None} \cup {Some(Tuple([i \in 1..k |-> Entry(prefix, mark, i)])) : k \in 0..n}

EducationLists == Lists(<<"1", "9", "9">>, "KA", MaxEducation)

WorkLists == Lists(<<"2", "0", "0">>, "KB", MaxWork)

LicenseLists == Lists(<<"2", "0", "1">>, "KC", MaxLicenses)

PostalCode == <<"1", "2", "3", "-", "4", "5", "6", "7">>

\* 1990 NEN 5 GATSU 3 HI
BirthDate == <<"1", "9", "9", "0", "NEN", "5", "GATSU", "3", "HI">>

FullResume ==
    [name |-> Some(<<"KA", "KB">>), nameKana |-> Some(<<"FU", "RI">>),
     birthDate |-> Some(BirthDate), age |-> Some(34), gender |-> Some(<<"OTOKO">>),
     address |-> Some(<<"POST">> \o PostalCode \o <<"SP", "KA", "KC">>),
     addressKana |-> Some(<<"GA", "NA">>), postalCode |-> Some(PostalCode),
     phoneNumber |-> Some(<<"0", "3", "-", "1", "2">>),
     email |-> Some(<<"a", "@", "i">>),
     educationHistory |-> Some(<<Entry(<<"1", "9", "9">>, "KA", 1)>>),
     workHistory |-> Some(<<Entry(<<"2", "0", "0">>, "KB", 1)>>),
     licenses |-> Some(<<>>),
     healthCondition |-> Some(<<"KA">>), hobbies |-> Some(<<"KB">>),
     nearestStation |-> Some(<<"KC", "EKI">>), dependents |-> Some(2),
     hasSpouse |-> Some(TRUE), supportingSpouse |-> Some(FALSE)]

Strings(value) == {None, Some(<<>>), Some(value)}

\* the values each scalar field takes
ScalarValues ==
    [name |-> Strings(<<"KB", "KA">>), nameKana |-> Strings(<<"RI", "FU">>),
     birthDate |-> Strings(BirthDate)
        \cup {Some(<<"KA", "5", "GATSU">>),
              Some(<<"KB", "9", "0", "SP", "NEN", "1", "2", "GATSU", "SP", "3", "HI",
                     "SEI">>)},
     age |-> {None, Some(0), Some(7), Some(34)},
     gender |-> Strings(<<"ONNA">>),
     address |-> Strings(<<"KA", "KC">>)
        \cup {Some(<<"KA", "POST", "SP", "1", "2", "3", "-", "4", "5", "6", "7", "SP",
                     "SP", "KB", "POST", "1", "2", "3", "-", "4", "5", "6", "7">>),
              Some(<<"POST", "1", "2", "-", "4", "5", "6", "7", "KA">>)},
     addressKana |-> Strings(<<"GA">>), postalCode |-> Strings(PostalCode),
     phoneNumber |-> Strings(<<"0", "9", "0">>), email |-> Strings(<<"m", "@", "l">>),
     healthCondition |-> Strings(<<"KB">>), hobbies |-> Strings(<<"KC">>),
     nearestStation |-> Strings(<<"KA", "EKI">>),
     dependents |-> {None, Some(0), Some(2)},
     hasSpouse |-> {None, Some(TRUE), Some(FALSE)},
     supportingSpouse |-> {None, Some(TRUE), Some(FALSE)}]

ScalarFields == DOMAIN ScalarValues

\* the records that differ from a full or an empty record in at most one
\* scalar field
ScalarResumes ==
    UNION {{[base EXCEPT ![field] = value] :
                base \in {FullResume, NoResume}, value \in ScalarValues[field]} :
           field \in ScalarFields}

\* a record of ScalarResumes with any list of licences, or a full or an
\* empty record with any three lists
Resumes ==
    {[resume EXCEPT !.licenses = licenses] :
        resume \in ScalarResumes, licenses \in LicenseLists}
    \cup
    {[base EXCEPT !.educationHistory = education, !.workHistory = work,
                  !.licenses = licenses] :
        base \in {FullResume, NoResume}, education \in EducationLists,
        work \in WorkLists, licenses \in LicenseLists}

\* the worksheets of the template workbook
Templates == {{"Sheet1"}, {"Sheet1", "Sheet2"}, {"Sheet2"}, {}}

ExcelInit ==
    /\ resumeData \in Resumes
    /\ templateSheets \in Templates
    /\ excelPc = "called"
    /\ worksheet = Template
    /\ cellWrites = <<>>
    /\ tempFile = FALSE
    /\ uploads = 0
    /\ excelError = ""
    /\ StoreIdle
    /\ ExtractIdle
    /\ ExportIdle
    /\ UiIdle

ExcelNext ==
    \/ \E rejects \in BOOLEAN : readTemplateAndFill(rejects)
    \/ \E rejects \in BOOLEAN, leavesFile \in BOOLEAN : writeFile(rejects, leavesFile)
    \/ \E rejects \in BOOLEAN : readFile(rejects)
    \/ \E rejects \in BOOLEAN : put(rejects)
    \/ \E rejects \in BOOLEAN : unlink(rejects)

SpecExcel == ExcelInit /\ [][ExcelNext]_vars

----------------------------------------------------------------------------
(* The OCR results and the templates of an export.                         *)

\* a resume with a name, a date of birth and an education section
ResumeText ==
    <<"SHI", "MEI", "FCOLON", "KA", "KB", "LF">>
        \o BirthLabelAndDate \o <<"FLPAREN", "MAN", "3", "4", "SAI", "FRPAREN", "LF">>
        \o EducationHeader \o <<"LF">>
        \o <<"2", "0", "1", "0", "NEN", "4", "GATSU", "SP", "KA", "LF">>
        \o WorkHeader

ExportDocs == PagedDocs \cup {Doc(<<Page(ResumeText)>>)}

ExportInit ==
    /\ ocrResult \in ExportDocs
    /\ extractPc = "idle"
    /\ extractedData = NoData
    /\ extractError = ""
    /\ templateSheets \in Templates
    /\ resumeData = NoResume
    /\ excelPc = "idle"
    /\ worksheet = Template
    /\ cellWrites = <<>>
    /\ tempFile = FALSE
    /\ uploads = 0
    /\ excelError = ""
    /\ StoreIdle
    /\ ExportIdle
    /\ UiIdle

ExportNext ==
    \/ handleExportToExcel
    \/ extractResumeData
    \/ extractionSettled
    \/ \E rejects \in BOOLEAN : readTemplateAndFill(rejects)
    \/ \E rejects \in BOOLEAN, leavesFile \in BOOLEAN : writeFile(rejects, leavesFile)
    \/ \E rejects \in BOOLEAN : readFile(rejects)
    \/ \E rejects \in BOOLEAN : put(rejects)
    \/ \E rejects \in BOOLEAN : unlink(rejects)
    \/ \E clickThrows \in BOOLEAN : generationSettled(clickThrows)

SpecExport == ExportInit /\ [][ExportNext]_vars

----------------------------------------------------------------------------
(* app/components/OcrResultView.tsx                                        *)

\* an OCR response that is an error object
ErrorResult == [kind |-> "error", pages |-> <<>>]

\* the pages of the responses shown: with markdown, with the empty string as
\* markdown, and without markdown
ViewPageChoices == {Page(<<"KA">>), Page(<<>>), NoMarkdownPage}

ViewDocs ==
    {NullResult, ErrorResult, NoPagesResult}
    \cup UNION {{Doc(pages) : pages \in [1..n -> ViewPageChoices]} : n \in 1..MaxViewPages}

\* the component renders the pages and their buttons (lines 164 to 203)
ShowsPages == ocrResult.kind = "doc" /\ Len(ocrResult.pages) > 0

\* page.markdown is truthy
HasMarkdown(pageIdx) ==
    /\ ocrResult.pages[pageIdx + 1].hasMarkdown
    /\ ocrResult.pages[pageIdx + 1].markdown # <<>>

\* the copy actions the model follows
MaxCopies == 3

\* copyToClipboard up to its await: navigator.clipboard.writeText is called
writeText(pageIndex) ==
    /\ clipboardWrites < MaxCopies
    /\ clipboardWrites' = clipboardWrites + 1
    /\ copyPending' = [copyPending EXCEPT ![pageIndex] = @ + 1]
    /\ UNCHANGED <<copyingAll, copyingPage, copyTimers, visiblePages, intersecting,
                   currentPageDisplay, displayPending>>
    /\ UNCHANGED <<extractVars, storeVars, excelVars, exportVars, tabVars, transferVars>>

\* copyAllMarkdown, the onClick of the button that copyingAll disables
copyAllMarkdown ==
    /\ ShowsPages
    /\ ~copyingAll
    /\ writeText(CopyAll)

\* the onClick of the button of a page, disabled when the page has no
\* markdown and while copyingPage is the page
copyPage(pageIdx) ==
    /\ ShowsPages
    /\ pageIdx < Len(ocrResult.pages)
    /\ HasMarkdown(pageIdx)
    /\ copyingPage # Some(pageIdx)
    /\ writeText(pageIdx)

\* the onClick of the button of a page in the component with the transfer
\* mode: copyToClipboard(page.markdown || "", pageIndex), never disabled
copyPageMarkdown(pageIndex) ==
    /\ ShowsPages
    /\ pageIndex < Len(ocrResult.pages)
    /\ writeText(pageIndex)

\* the indicator is set whether the write succeeded or not
writeTextSettledAlwaysCopied(pageIndex, rejects) ==
    /\ copyPending[pageIndex] > 0
    /\ copyPending' = [copyPending EXCEPT ![pageIndex] = @ - 1]
    /\ IF pageIndex = CopyAll
       THEN /\ copyingAll' = TRUE
            /\ copyTimers' = [copyTimers EXCEPT !["all"] = @ + 1]
            /\ UNCHANGED copyingPage
       ELSE /\ copyingPage' = Some(pageIndex)
            /\ copyTimers' = [copyTimers EXCEPT !["page"] = @ + 1]
            /\ UNCHANGED copyingAll
    /\ UNCHANGED <<clipboardWrites, visiblePages, intersecting, currentPageDisplay,
                   displayPending>>
    /\ UNCHANGED <<extractVars, storeVars, excelVars, exportVars, tabVars, transferVars>>

\* copyToClipboard after its await: the write is fulfilled and the
\* indicator is set with a timer that resets it, or the write is rejected,
\* the error is logged and a timer that resets nothing is set
writeTextSettled(pageIndex, rejects) ==
    /\ copyPending[pageIndex] > 0
    /\ copyPending' = [copyPending EXCEPT ![pageIndex] = @ - 1]
    /\ IF rejects
       THEN /\ copyTimers' = [copyTimers EXCEPT !["none"] = @ + 1]
            /\ UNCHANGED <<copyingAll, copyingPage>>
       ELSE IF pageIndex = CopyAll
       THEN /\ copyingAll' = TRUE
            /\ copyTimers' = [copyTimers EXCEPT !["all"] = @ + 1]
            /\ UNCHANGED copyingPage
       ELSE /\ copyingPage' = Some(pageIndex)
            /\ copyTimers' = [copyTimers EXCEPT !["page"] = @ + 1]
            /\ UNCHANGED copyingAll
    /\ UNCHANGED <<clipboardWrites, visiblePages, intersecting, currentPageDisplay,
                   displayPending>>
    /\ UNCHANGED <<extractVars, storeVars, excelVars, exportVars, tabVars, transferVars>>

\* a callback of setTimeout runs, 3000 ms after it was set
copyTimerFired(kind) ==
    /\ copyTimers[kind] > 0
    /\ copyTimers' = [copyTimers EXCEPT ![kind] = @ - 1]
    /\ copyingAll' = IF kind = "all" THEN FALSE ELSE copyingAll
    /\ copyingPage' = IF kind = "page" THEN None ELSE copyingPage
    /\ UNCHANGED <<copyPending, clipboardWrites, visiblePages, intersecting,
                   currentPageDisplay, displayPending>>
    /\ UNCHANGED <<extractVars, storeVars, excelVars, exportVars, tabVars, transferVars>>

ViewInit ==
    /\ ocrResult \in ViewDocs
    /\ extractPc = "ready"
    /\ extractedData = NoData
    /\ extractError = ""
    /\ StoreIdle
    /\ ExcelIdle
    /\ ExportIdle
    /\ UiIdle

CopyNext ==
    \/ copyAllMarkdown
    \/ \E pageIdx \in ViewPages : copyPage(pageIdx)
    \/ \E pageIndex \in ViewPages : copyPageMarkdown(pageIndex)
    \/ \E pageIndex \in CopyTargets, rejects \in BOOLEAN : writeTextSettled(pageIndex, rejects)
    \/ \E kind \in TimerKinds : copyTimerFired(kind)

SpecCopy == ViewInit /\ [][CopyNext]_vars

\* a.includes(x) of an array of numbers
IncludesIndex(a, x) == \E i \in 1..Len(a) : a[i] = x

\* a.filter((idx) => idx !== x)
RECURSIVE FilterIndex(_, _)
FilterIndex(a, x) ==
    IF a = <<>> THEN <<>>
    ELSE IF a[1] # x THEN <<a[1]>> \o FilterIndex(Tail(a), x)
    ELSE FilterIndex(Tail(a), x)

\* the array is left in the order of the insertions
Unsorted(a) == a

\* a.sort((a, b) => a - b): x put before the first greater element of a
\* sorted array, for every x in turn
RECURSIVE InsertSorted(_, _)
InsertSorted(a, x) ==
    IF a = <<>> THEN <<x>>
    ELSE IF x < a[1] THEN <<x>> \o a
    ELSE <<a[1]>> \o InsertSorted(Tail(a), x)

RECURSIVE SortAscending(_)
SortAscending(a) ==
    IF a = <<>> THEN <<>>
    ELSE InsertSorted(SortAscending(SubSeq(a, 1, Len(a) - 1)), a[Len(a)])

\* the callback of the IntersectionObserver for one entry (lines 103 to
\* 115); an update that returns prev itself starts no render and no effect
intersectionEntry(pageIndex, isIntersecting) ==
    /\ ShowsPages
    /\ pageIndex < Len(ocrResult.pages)
    /\ intersecting' = [intersecting EXCEPT ![pageIndex] =
                            IF isIntersecting THEN "intersecting" ELSE "away"]
    /\ IF isIntersecting
       THEN IF IncludesIndex(visiblePages, pageIndex)
            THEN UNCHANGED <<visiblePages, displayPending>>
            ELSE /\ visiblePages' = SortAscending(visiblePages \o <<pageIndex>>)
                 /\ displayPending' = TRUE
       ELSE /\ visiblePages' = FilterIndex(visiblePages, pageIndex)
            /\ displayPending' = TRUE
    /\ UNCHANGED <<copyingAll, copyingPage, copyPending, copyTimers, clipboardWrites,
                   currentPageDisplay>>
    /\ UNCHANGED <<extractVars, storeVars, excelVars, exportVars, tabVars, transferVars>>

\* the effect on visiblePages (lines 129 to 133)
displayEffect ==
    /\ displayPending
    /\ displayPending' = FALSE
    /\ currentPageDisplay' = IF Len(visiblePages) > 0
                             THEN NumberText(visiblePages[1] + 1)
                             ELSE currentPageDisplay
    /\ UNCHANGED <<copyingAll, copyingPage, copyPending, copyTimers, clipboardWrites,
                   visiblePages, intersecting>>
    /\ UNCHANGED <<extractVars, storeVars, excelVars, exportVars, tabVars, transferVars>>

PagesNext ==
    \/ \E pageIndex \in ViewPages, isIntersecting \in BOOLEAN :
           intersectionEntry(pageIndex, isIntersecting)
    \/ displayEffect

SpecPages == ViewInit /\ [][PagesNext]_vars

----------------------------------------------------------------------------
(* app/components/DataTransfer.tsx (src/unnamed/part_000)                  *)

\* the property selectedText: null, the empty string or a selected text
SelectedTexts == {None, Some(<<>>), Some(<<"KA">>), Some(<<"KB">>)}

\* the renders of one pass after which React gives the pass up and throws
\* (Too many re-renders); the model follows fewer renders than React allows
MaxReRenders == 3

\* handleFieldClick(fieldName); setting the state it has starts no render
handleFieldClick(fieldName) ==
    /\ transferPc = "rendered"
    /\ activeField' = Some(fieldName)
    /\ transferPc' = IF activeField = Some(fieldName) THEN "rendered" ELSE "pending"
    /\ UNCHANGED <<transferFields, isCopied, transferTimers, selectedText, reRenders>>
    /\ UNCHANGED <<extractVars, storeVars, excelVars, exportVars, tabVars, viewVars>>

\* the parent renders DataTransfer with another selectedText
selectedTextSet(text) ==
    /\ transferPc = "rendered"
    /\ text # selectedText
    /\ selectedText' = text
    /\ transferPc' = "pending"
    /\ UNCHANGED <<transferFields, activeField, isCopied, transferTimers, reRenders>>
    /\ UNCHANGED <<extractVars, storeVars, excelVars, exportVars, tabVars, viewVars>>

\* the function body of DataTransfer runs: with a selected text and an
\* active field it calls handleTransferText (lines 116 to 119), whose
\* setTransferFields and setIsCopied, called while rendering with objects
\* made anew, make React render the component again; the timeout keeps the
\* isCopied and the activeField of this render
renderDataTransfer ==
    /\ transferPc = "pending"
    /\ IF Truthy(selectedText) /\ activeField.has
       THEN /\ transferFields' = [transferFields EXCEPT ![activeField.v] = selectedText.v]
            /\ isCopied' = [isCopied EXCEPT ![activeField.v] = TRUE]
            /\ transferTimers' = transferTimers \cup
                                   {[isCopied |-> isCopied, field |-> activeField.v]}
            /\ IF reRenders < MaxReRenders
               THEN /\ reRenders' = reRenders + 1
                    /\ transferPc' = "pending"
               ELSE /\ reRenders' = reRenders
                    /\ transferPc' = "threw"
       ELSE /\ transferPc' = "rendered"
            /\ reRenders' = 0
            /\ UNCHANGED <<transferFields, isCopied, transferTimers>>
    /\ UNCHANGED <<activeField, selectedText>>
    /\ UNCHANGED <<extractVars, storeVars, excelVars, exportVars, tabVars, viewVars>>

\* the callback of the setTimeout of handleTransferText runs between
\* renders (lines 49 to 54); it does nothing once the component is gone
transferTimerFired(timer) ==
    /\ timer \in transferTimers
    /\ transferPc # "pending"
    /\ transferTimers' = transferTimers \ {timer}
    /\ IF transferPc = "rendered"
       THEN /\ isCopied' = [timer.isCopied EXCEPT ![timer.field] = FALSE]
            /\ transferPc' = "pending"
       ELSE UNCHANGED <<isCopied, transferPc>>
    /\ UNCHANGED <<transferFields, activeField, selectedText, reRenders>>
    /\ UNCHANGED <<extractVars, storeVars, excelVars, exportVars, tabVars, viewVars>>

TransferInit ==
    /\ StoreIdle
    /\ ExtractIdle
    /\ ExcelIdle
    /\ ExportIdle
    /\ UiIdle

TransferNext ==
    \/ \E fieldName \in TransferFieldNames : handleFieldClick(fieldName)
    \/ \E text \in SelectedTexts : selectedTextSet(text)
    \/ renderDataTransfer
    \/ \E timer \in transferTimers : transferTimerFired(timer)

\* React renders again at once when the state is set while rendering, and
\* runs a render it has scheduled; the event loop runs the timers
SpecTransfer ==
    /\ TransferInit
    /\ [][TransferNext]_vars
    /\ WF_vars(renderDataTransfer)
    /\ WF_vars(\E timer \in transferTimers : transferTimerFired(timer))

----------------------------------------------------------------------------
(* Properties of extractResumeData.                                        *)

Returned == extractPc = "returned"

\* the first position at which label occurs in t
FirstIndexOf(t, label) ==
    CHOOSE i \in 1..(Len(t) - Len(label) + 1) :
        /\ SubSeq(t, i, i + Len(label) - 1) = label
        /\ \A j \in 1..(i - 1) : SubSeq(t, j, j + Len(label) - 1) # label

\* C1: extractResumeData throws its error exactly when the OCR result is
\* absent, has no pages list or has an empty pages list; for every result
\* with at least one page, whatever its pages' markdown, it returns a record.
C1_ThrowsExactlyWithoutPages ==
    extractPc # "ready" =>
        IF ocrResult.kind \in {"null", "nopages"} \/ ocrResult.pages = <<>>
        THEN extractPc = "thrown" /\ extractError = ExtractError
        ELSE extractPc = "returned" /\ extractError = ""

\* a result of two pages, one of them without markdown, has been extracted
C1_Witness ==
    /\ Returned
    /\ Len(ocrResult.pages) = 2
    /\ \E i \in 1..2 : ~ocrResult.pages[i].hasMarkdown
    /\ extractedData.name.has

NameLabel == <<"SHI", "MEI">>

\* the text after the first name label, its colons and its white space, up
\* to the next line break, trimmed
NameByClaim(t) ==
    LET p == FirstIndexOf(t, NameLabel)
        q == RunEnd(t, p + Len(NameLabel), Colons)
        r == RunEnd(t, q, WhiteSpace)
        e == RunEnd(t, r, Alphabet \ LineBreaks)
    IN  Trim(SubSeq(t, r, e - 1))

\* C4: for any text with the name label followed by optional colons and
\* white space, name is the trimmed remainder of that line, taken at the
\* first occurrence of the label (when nothing remains, name is unset or
\* empty).
C4_NameIsRestOfLine ==
    (Returned /\ Includes(AllText, NameLabel)) =>
        \E v \in {NameByClaim(AllText)} :
            IF v = <<>>
            THEN ~extractedData.name.has \/ extractedData.name.v = <<>>
            ELSE extractedData.name = Some(v)

\* the date of birth and the age as the claim reads them off the first
\* date-of-birth label: the value runs to the first opening parenthesis or
\* line break; the age is the N of "( MAN N SAI" right after the value
BirthByClaim(t) ==
    LET p == FirstIndexOf(t, BirthLabel)
        q == RunEnd(t, p + Len(BirthLabel), Colons)
        r == RunEnd(t, q, WhiteSpace)
        e == RunEnd(t, r, Alphabet \ (LineBreaks \cup OpenParens))
        a == RunEnd(t, e + 1, WhiteSpace)
        b == RunEnd(t, a + 1, WhiteSpace)
        d == RunEnd(t, b, Digits)
        f == RunEnd(t, d, WhiteSpace)
        aged == /\ e <= Len(t) /\ t[e] \in OpenParens
                /\ a <= Len(t) /\ t[a] = "MAN"
                /\ d > b
                /\ f <= Len(t) /\ t[f] = "SAI"
    IN  [value |-> Trim(SubSeq(t, r, e - 1)),
         age |-> IF aged THEN Some(ParseInt(SubSeq(t, b, d - 1))) ELSE None]

EntriesOf(field) == IF field.has THEN field.v ELSE <<>>

\* the captured text of the education section, <<>> when there is none
EducationBodyText(t) ==
    With(Match(t, educationSectionRegex), LAMBDA m :
        IF m.found THEN Group(t, m, 1) ELSE <<>>)

ExpectedEntry(line) ==
    [year |-> line.year, month |-> line.month, description |-> Trim(line.description)]

\* C6: for an education header line followed by k lines "<digits> NEN
\* <digits> GATSU <description>" (a description that is not blank and holds
\* no work header) and then the work header, educationHistory has exactly k
\* entries, in text order, each with its line's year, month and trimmed
\* description, and the captured education text is those k lines: it holds
\* neither the work header nor anything after it.
C6_EducationEntries ==
    (Returned /\ ocrResult \in EducationDocs) =>
        \A b \in BeforeEducation, g \in AfterHeader, ls \in EducationLines,
           a \in AfterWorkHeader :
            ocrResult = Doc(<<Page(EducationText(b, g, ls, a))>>) =>
                /\ EntriesOf(extractedData.educationHistory)
                        = [i \in 1..Len(ls) |-> ExpectedEntry(ls[i])]
                /\ EducationBodyText(AllText) = LinesText(ls)
                /\ ~Includes(EducationBodyText(AllText), WorkHeader)

\* three education lines, and a work entry after the work header
C6_Witness ==
    /\ Returned
    /\ \E b \in BeforeEducation, g \in AfterHeader, ls \in EducationLines,
          a \in AfterWorkHeader :
            /\ Len(ls) = 3
            /\ a # <<>>
            /\ ocrResult = Doc(<<Page(EducationText(b, g, ls, a))>>)
    /\ Len(EntriesOf(extractedData.educationHistory)) = 3
    /\ extractedData.workHistory.has

\* the text each field's pattern looks for literally
FieldLabel ==
    [name |-> NameLabel, nameKana |-> <<"FU", "RI", "GA", "NA">>,
     birthDate |-> BirthLabel, age |-> BirthLabel, gender |-> GenderLabel,
     address |-> AddressLabel, postalCode |-> AddressLabel,
     phoneNumber |-> <<"DEN", "WA", "BAN", "GOU">>, email |-> <<"m", "a", "i", "l">>,
     educationHistory |-> EducationHeader, workHistory |-> WorkHeader,
     licenses |-> LicenseHeader, healthCondition |-> HealthHeader,
     hobbies |-> HobbiesHeader, nearestStation |-> <<"MO", "YO", "RI", "EKI">>,
     dependents |-> <<"FUY", "YOU", "KAZ", "ZOKU", "SUU">>,
     hasSpouse |-> SpouseLabel, supportingSpouse |-> SupportingSpouseLabel]

\* what each field's own pattern yields on t, whatever the other patterns do
ByOwnPattern(t) ==
    [name |-> Captured(t, nameRegex),
     nameKana |-> Captured(t, nameKanaRegex),
     birthDate |-> Captured(t, birthDateRegex),
     age |-> Number(t, ageRegex),
     gender |-> Captured(t, genderRegex),
     address |-> Captured(t, addressRegex),
     postalCode |-> IF Match(t, addressRegex).found THEN PostalCodeOf(t) ELSE None,
     phoneNumber |-> Captured(t, phoneRegex),
     email |-> Captured(t, emailRegex),
     educationHistory |-> SectionEntries(t, educationSectionRegex),
     workHistory |-> SectionEntries(t, workSectionRegex),
     licenses |-> SectionEntries(t, licenseSectionRegex),
     healthCondition |-> Captured(t, healthRegex),
     hobbies |-> Captured(t, hobbiesRegex),
     nearestStation |-> Captured(t, stationRegex),
     dependents |-> Number(t, dependentsRegex),
     hasSpouse |-> Flag(t, spouseRegex),
     supportingSpouse |-> Flag(t, supportingSpouseRegex)]

StringFields ==
    {"name", "nameKana", "birthDate", "gender", "address", "postalCode",
     "phoneNumber", "email", "healthCondition", "hobbies", "nearestStation"}

\* C15: every string field extractResumeData sets holds a text that is not
\* empty; a field is absent or holds a trimmed capture with a character.
C15_StringFieldsNeverEmpty ==
    Returned =>
        \A f \in StringFields : extractedData[f].has => extractedData[f].v # <<>>

\* the positions at which label occurs in t
Occurrences(t, label) ==
    {i \in 1..(Len(t) - Len(label) + 1) : SubSeq(t, i, i + Len(label) - 1) = label}

\* the position after the label at i, its colons and then its white space
AfterLabel(t, i, label) == RunEnd(t, RunEnd(t, i + Len(label), Colons), WhiteSpace)

Minimum(S) == CHOOSE i \in S : \A j \in S : i <= j

\* the occurrences of the gender label followed, past colons and white
\* space, by one of the two characters
GenderHits(t) ==
    {i \in Occurrences(t, GenderLabel) :
        /\ AfterLabel(t, i, GenderLabel) <= Len(t)
        /\ t[AfterLabel(t, i, GenderLabel)] \in {"OTOKO", "ONNA"}}

\* C16: gender, when set, is the one character OTOKO or ONNA; it is set from
\* the first gender label that is followed, past optional colons and white
\* space, by one of the two, and when the character after every label is
\* another one (or the text ends there) gender is unset.
C16_GenderIsOneOfTwo ==
    Returned =>
        /\ extractedData.gender.has => extractedData.gender.v \in {<<"OTOKO">>, <<"ONNA">>}
        /\ IF GenderHits(AllText) = {}
           THEN ~extractedData.gender.has
           ELSE extractedData.gender
                    = Some(<<AllText[AfterLabel(AllText, Minimum(GenderHits(AllText)),
                                                GenderLabel)]>>)

\* the label, a colon, another character and then OTOKO: gender is unset
C16_Witness ==
    /\ Returned
    /\ AllText = GenderLabel \o <<"FCOLON", "KA", "OTOKO">>
    /\ ~extractedData.gender.has

\* NNN-NNNN
IsPostalCode(code) ==
    /\ Len(code) = 8
    /\ \A i \in {1, 2, 3, 5, 6, 7, 8} : code[i] \in Digits
    /\ code[4] = "-"

\* the code that follows the postal mark at position i of a, past white space
CodeAfter(a, i) == SubSeq(a, RunEnd(a, i + 1, WhiteSpace), RunEnd(a, i + 1, WhiteSpace) + 7)

\* the positions of a where a postal mark is followed by a code
PostalMarks(a) == {i \in 1..Len(a) : a[i] = "POST" /\ IsPostalCode(CodeAfter(a, i))}

\* C17: postalCode is set exactly when address is set and holds the postal
\* mark followed (past white space) by a code NNN-NNNN, and then it is the
\* first such code of the address, which the address still holds with its
\* mark; a code anywhere else in the text never sets postalCode.
C17_PostalCodeLiesInAddress ==
    Returned =>
        IF extractedData.address.has /\ PostalMarks(extractedData.address.v) # {}
        THEN extractedData.postalCode
                = Some(CodeAfter(extractedData.address.v,
                                 Minimum(PostalMarks(extractedData.address.v))))
        ELSE ~extractedData.postalCode.has

\* a text with a postal code on its first line and an address without one
\* on its second line; postalCode is unset
C17_Witness ==
    /\ Returned
    /\ AllText = PostalText \o <<"LF">> \o AddressLabel \o <<"FCOLON", "KA">>
    /\ extractedData.address = Some(<<"KA">>)
    /\ ~extractedData.postalCode.has

\* C18 as stated: the address captured after the address label stops at the
\* first line break or opening parenthesis, so the stored address never
\* holds an opening parenthesis.
C18_AddressStopsAtParenthesis ==
    (Returned /\ extractedData.address.has) =>
        \A i \in 1..Len(extractedData.address.v) :
            extractedData.address.v[i] \notin OpenParens

\* C18, amended: the address captured after an address label, its colons and
\* white space runs to the first line break or to the end of the text and
\* does not stop at an opening parenthesis; the stored address is that
\* capture trimmed, so it never holds a line break and it holds every
\* parenthesis of the captured line and the text after it.
C18_AddressRunsToLineBreak ==
    (Returned /\ extractedData.address.has) =>
        /\ \A i \in 1..Len(extractedData.address.v) :
                extractedData.address.v[i] \notin LineBreaks
        /\ \E i \in Occurrences(AllText, AddressLabel) :
            \E p \in (i + Len(AddressLabel))..Len(AllText) :
                /\ \A j \in (i + Len(AddressLabel))..(p - 1) :
                        AllText[j] \in Colons \cup WhiteSpace
                /\ extractedData.address.v
                        = Trim(SubSeq(AllText, p,
                                      RunEnd(AllText, p, Alphabet \ LineBreaks) - 1))

\* an address line with an opening parenthesis: the address holds the
\* parenthesis and the character after it
C18_Witness ==
    /\ Returned
    /\ AllText = AddressLabel \o <<"FCOLON", "KA", "(", "KB", "LF">>
    /\ extractedData.address = Some(<<"KA", "(", "KB">>)

AriNashiChars == {"AA", "RI", "NA", "SI", "|"}

\* the occurrences of label followed, past colons and white space, by a
\* character of the set
TokenHits(t, label) ==
    {i \in Occurrences(t, label) :
        /\ AfterLabel(t, i, label) <= Len(t)
        /\ t[AfterLabel(t, i, label)] \in AriNashiChars}

\* the run of characters of the set after the label at i
TokenAt(t, i, label) ==
    SubSeq(t, AfterLabel(t, i, label),
           RunEnd(t, AfterLabel(t, i, label), AriNashiChars) - 1)

\* the flag as the claim reads it off the text
FlagByClaim(t, label) ==
    IF TokenHits(t, label) = {} THEN None
    ELSE Some(Includes(TokenAt(t, Minimum(TokenHits(t, label)), label), <<"AA", "RI">>))

\* C19: hasSpouse and supportingSpouse are read off the token after their
\* label, the longest run of the characters AA, RI, NA, SI and | in any
\* order: the field is true when the token holds AA RI as contiguous
\* characters and false when it does not, and it is unset when no character
\* of the set follows the label.
C19_SpouseFlags ==
    Returned =>
        /\ extractedData.hasSpouse = FlagByClaim(AllText, SpouseLabel)
        /\ extractedData.supportingSpouse = FlagByClaim(AllText, SupportingSpouseLabel)

\* the token RI AA RI after the spouse label: hasSpouse is true
C19_Witness ==
    /\ Returned
    /\ \E i \in TokenHits(AllText, SpouseLabel) :
            TokenAt(AllText, i, SpouseLabel) = <<"RI", "AA", "RI">>
    /\ extractedData.hasSpouse = Some(TRUE)

SectionHeaderOf ==
    [educationHistory |-> EducationHeader, workHistory |-> WorkHeader,
     licenses |-> LicenseHeader]

\* the headers that end a section
KnownHeaders == {WorkHeader, LicenseHeader, HealthHeader, HobbiesHeader}

\* the header, a known one or own, that occurs last before position p of t
HeaderBefore(t, p, own) ==
    CHOOSE h \in KnownHeaders \cup {own} :
        \E i \in Occurrences(t, h) :
            /\ i < p
            /\ \A g \in KnownHeaders \cup {own} :
                    \A j \in Occurrences(t, g) : j < p => j <= i

\* C20: each entry of educationHistory, workHistory and licenses is a row
\* that lies between the list's own header line and the nearest following
\* known header (work, licences, health, hobbies) or the end of the text, so
\* the header nearest before the row is the list's own: education entries
\* hold no row of the licences section, and no row is reported in two lists.
C20_SectionsEndAtNextHeader ==
    Returned =>
        /\ \A f \in DOMAIN SectionHeaderOf :
            \A n \in 1..Len(EntriesOf(extractedData[f])) :
                HeaderBefore(AllText,
                             FirstIndexOf(AllText, extractedData[f].v[n].year \o <<"NEN">>),
                             SectionHeaderOf[f])
                    = SectionHeaderOf[f]
        /\ \A f, g \in DOMAIN SectionHeaderOf :
            f # g =>
                \A n \in 1..Len(EntriesOf(extractedData[f])) :
                    \A k \in 1..Len(EntriesOf(extractedData[g])) :
                        extractedData[f].v[n] # extractedData[g].v[k]

\* the occurrences of the entry pattern in the education section
EducationOccurrences == MatchAll(EducationBodyText(AllText), entriesRegex)

\* the digits an occurrence begins with, and the digits after its year mark
YearDigits(e) == SubSeq(e, 1, RunEnd(e, 1, Digits) - 1)

AfterYearMark(e) == RunEnd(e, RunEnd(e, RunEnd(e, 1, Digits), WhiteSpace) + 1, WhiteSpace)

MonthDigits(e) == SubSeq(e, AfterYearMark(e), RunEnd(e, AfterYearMark(e), Digits) - 1)

\* the position after the month mark of an occurrence
AfterMonthMark(e) == RunEnd(e, RunEnd(e, AfterYearMark(e), Digits), WhiteSpace) + 1

\* the rest of the line the scan captured for an occurrence
RestOfOccurrence(e) == With(Match(e, entriesRegex), LAMBDA m : Group(e, m, 3))

\* the entry of an occurrence as C21 states it
EntryAsStated(e) ==
    IF Match(e, partsRegex).found
    THEN [year |-> YearDigits(e), month |-> MonthDigits(e),
          description |-> Trim(RestOfOccurrence(e))]
    ELSE [year |-> <<>>, month |-> <<>>, description |-> e]

\* C21 as stated: every occurrence of the entry pattern in the section body
\* yields one entry, in text order, and a list that is present is not
\* empty; an occurrence that decomposes gives its year and month digits and
\* the trimmed rest of its line, one that does not gives empty year and
\* month and the raw matched text.
C21_EntryPerOccurrence ==
    Returned =>
        /\ extractedData.educationHistory.has => extractedData.educationHistory.v # <<>>
        /\ EntriesOf(extractedData.educationHistory)
                = [i \in 1..Len(EducationOccurrences) |->
                        EntryAsStated(EducationOccurrences[i])]

Maximum(S) == CHOOSE i \in S : \A j \in S : j <= i

\* where the description of an occurrence can begin: after the month mark,
\* past white space or within it, at a character the dot matches
DescriptionStarts(e) ==
    {p \in AfterMonthMark(e)..Len(e) :
        /\ \A j \in AfterMonthMark(e)..(p - 1) : e[j] \in WhiteSpace
        /\ e[p] \notin LineTerminators}

\* the entry of an occurrence: the description runs from the last possible
\* start to the next line terminator, U+2028 included
EntryAmended(e) ==
    IF DescriptionStarts(e) = {}
    THEN [year |-> <<>>, month |-> <<>>, description |-> Trim(e)]
    ELSE [year |-> YearDigits(e), month |-> MonthDigits(e),
          description |->
            Trim(SubSeq(e, Maximum(DescriptionStarts(e)),
                        RunEnd(e, Maximum(DescriptionStarts(e)),
                               Alphabet \ LineTerminators) - 1))]

\* C21, amended: every occurrence of the entry pattern in the section body
\* yields one entry, in text order, and a list that is present is not
\* empty; an occurrence with a character other than a line terminator after
\* its month mark gives its year and month digits and the trimmed text from
\* that character to the next line terminator (U+2028 is one), and an
\* occurrence without one gives empty year and month and the trimmed
\* matched text.
C21_EntryPerOccurrenceTrimmed ==
    Returned =>
        /\ extractedData.educationHistory.has => extractedData.educationHistory.v # <<>>
        /\ EntriesOf(extractedData.educationHistory)
                = [i \in 1..Len(EducationOccurrences) |->
                        EntryAmended(EducationOccurrences[i])]

\* two rows, the second with nothing but U+2028 after its month mark: the
\* second entry has no year and holds the matched text without the U+2028
C21_Witness ==
    /\ Returned
    /\ Len(EntriesOf(extractedData.educationHistory)) = 2
    /\ extractedData.educationHistory.v[2]
            = [year |-> <<>>, month |-> <<>>,
               description |-> <<"2", "0", "1", "2", "NEN", "4", "GATSU">>]

----------------------------------------------------------------------------
(* Properties of the history store.                                        *)

\* the stored history list
StoredList == storage.items

\* C2: starting from an empty history, after any sequence of saveOCRResult,
\* deleteStoredOCRResult and clearAllStoredOCRResults calls the stored list
\* never holds more than 10 entries.
C2_AtMostTenStored == Len(StoredList) <= 10

\* a save into a full history has just evicted an entry
C2_Witness ==
    /\ lastCall.op = "save"
    /\ lastCall.evicted
    /\ Len(StoredList) = 10

\* C3: a successful saveOCRResult (no call of localStorage fails in it) on a
\* stored list L leaves the store equal
\* to the new entry followed by the first 9 entries of L in their order (so
\* with 10 entries in L exactly the one at the highest index is evicted);
\* the returned entry is the one now at index 0.
C3_SavePrependsAndEvictsLast ==
    [][\A d \in SavedResults, f \in Filenames, r \in RandomSuffixes :
            saveOCRResult(d, f, r, FALSE, FALSE) =>
                LET L == StoredList
                    kept == SubSeq(L, 1, IF Len(L) < 9 THEN Len(L) ELSE 9)
                IN  /\ storage'.json = "array"
                    /\ storage'.items = <<lastCall'.entry>> \o kept
                    /\ lastCall'.entry = [id |-> <<now, r>>, timestamp |-> now,
                                          filename |-> f, result |-> d]]_vars

\* a successful save has evicted the oldest of 10 entries, saved at an
\* earlier time than the new one
C3_Witness ==
    /\ lastCall.op = "save"
    /\ lastCall.stored
    /\ lastCall.evicted
    /\ Len(StoredList) = 10
    /\ StoredList[1] = lastCall.entry
    /\ StoredList[10].timestamp < lastCall.entry.timestamp

\* the indices of the entries of list whose id is not id
OtherIds(list, id) == {i \in 1..Len(list) : list[i].id # id}

\* the k-th smallest element of a set of numbers
Kth(S, k) == CHOOSE i \in S : Cardinality({j \in S : j < i}) = k - 1

\* C25: deleteStoredOCRResult(id) returns true exactly when an entry of the
\* stored list it read has the id and the write succeeds, and the store then
\* holds that list without every entry with the id, the other entries
\* unchanged and in their order; when no entry has the id it returns false
\* and the stored data is unchanged.
C25_DeleteRemovesTheId ==
    [][\A n \in 0..MaxNow, r \in RandomSuffixes, g \in BOOLEAN, t \in BOOLEAN :
            deleteStoredOCRResult(<<n, r>>, g, t) =>
                LET list == StoredResults(g).items
                    others == OtherIds(list, <<n, r>>)
                    hasId == Cardinality(others) < Len(list)
                IN  /\ lastCall'.op = "delete"
                    /\ lastCall'.returned = (hasId /\ ~t)
                    /\ lastCall'.returned =>
                        /\ storage'.json = "array"
                        /\ Len(storage'.items) = Cardinality(others)
                        /\ \A k \in 1..Cardinality(others) :
                                storage'.items[k] = list[Kth(others, k)]
                    /\ ~hasId => storage' = storage]_vars

\* a delete has succeeded and the store holds entries saved at times 0 and 2
\* and none saved at time 1
C25_Witness ==
    /\ lastCall.op = "delete"
    /\ lastCall.returned
    /\ now = 2
    /\ \E i \in 1..Len(StoredList) : StoredList[i].id = <<0, "r0">>
    /\ \E i \in 1..Len(StoredList) : StoredList[i].id = <<2, "r0">>
    /\ \A i \in 1..Len(StoredList) : StoredList[i].id # <<1, "r0">>

----------------------------------------------------------------------------
(* Properties of generateResumeExcel.                                      *)

\* the assignments have been made
Filled ==
    \/ excelPc \in {"filled", "written", "read", "uploaded", "returned"}
    \/ excelPc = "thrown" /\ excelError \in {"xlsx.writeFile", "fs.readFile", "put",
                                              "fs.unlink"}

\* the cell the claims map each scalar field to
MappedCell ==
    [name |-> <<"B", 3>>, nameKana |-> <<"B", 2>>, birthDate |-> <<"A", 5>>,
     gender |-> <<"D", 2>>, addressKana |-> <<"B", 6>>, postalCode |-> <<"B", 7>>,
     address |-> <<"A", 7>>, phoneNumber |-> <<"F", 6>>, email |-> <<"F", 7>>,
     healthCondition |-> <<"I", 17>>, hobbies |-> <<"I", 18>>,
     nearestStation |-> <<"I", 19>>, dependents |-> <<"L", 17>>,
     hasSpouse |-> <<"L", 18>>, supportingSpouse |-> <<"L", 19>>]

MappedFields == DOMAIN MappedCell

ListFields == {"educationHistory", "workHistory", "licenses"}

\* the assignments made for a field
WritesOf(field) == SelectSeq(cellWrites, LAMBDA w : w.field = field)

Licenses == EntriesOf(resumeData.licenses)

\* the row of column I is a row of the list of licences
LicenceRow(row) == row - 13 \in 1..Len(Licenses)

\* C7 as stated: after the assignments, the mapped cell of every absent
\* field holds its template value, and an absent or empty list has written
\* no rows.
C7_AbsentKeepsTemplate ==
    Filled =>
        /\ \A field \in MappedFields :
                ~resumeData[field].has => worksheet[MappedCell[field]] = TemplateValue
        /\ \A field \in ListFields :
                EntriesOf(resumeData[field]) = <<>> => WritesOf(field) = <<>>

\* C7: after the assignments, no assignment has been made for an absent
\* field, and an absent or empty list has written no rows; the mapped cell
\* of an absent field holds its template value, except that I17, I18 and
\* I19 hold the year of the 4th, 5th and 6th licence when the list of
\* licences is that long.
C7_AbsentKeepsTemplateUnlessLicenceRow ==
    Filled =>
        /\ \A field \in MappedFields :
                ~resumeData[field].has =>
                    /\ WritesOf(field) = <<>>
                    /\ \E cell \in {MappedCell[field]} :
                        IF cell[1] = "I" /\ LicenceRow(cell[2])
                        THEN worksheet[cell] = StringValue(Licenses[cell[2] - 13].year)
                        ELSE worksheet[cell] = TemplateValue
        /\ \A field \in ListFields :
                EntriesOf(resumeData[field]) = <<>> => WritesOf(field) = <<>>

\* the record has a gender and four licences and nothing else
C7_Witness ==
    /\ Filled
    /\ resumeData.gender.has
    /\ worksheet[<<"D", 2>>] = StringValue(resumeData.gender.v)
    /\ ~resumeData.name.has
    /\ ~resumeData.healthCondition.has
    /\ ~resumeData.educationHistory.has
    /\ Len(Licenses) = 4

\* the columns and the first row of each list, as the claim gives them
RowsByClaim ==
    [educationHistory |-> [columns |-> <<"A", "B", "C">>, first |-> 14],
     workHistory |-> [columns |-> <<"A", "B", "C">>, first |-> 20],
     licenses |-> [columns |-> <<"I", "J", "K">>, first |-> 14]]

\* C8: for every list and every entry i (0-based) of it, the assignments
\* made for the list are, in order, entry i's year, month and description
\* to the three columns of row first+i (A B C from 14 for educationHistory,
\* A B C from 20 for workHistory, I J K from 14 for licenses): three
\* assignments for every entry, however long the list is.
C8_EveryEntryWritten ==
    Filled =>
        \A field \in ListFields :
            LET entries == EntriesOf(resumeData[field])
                columns == RowsByClaim[field].columns
                first == RowsByClaim[field].first
                writes == WritesOf(field)
            IN  /\ Len(writes) = 3 * Len(entries)
                /\ \A i \in 0..(Len(entries) - 1) :
                    /\ writes[3 * i + 1]
                         = Assign(<<columns[1], first + i>>,
                                  StringValue(entries[i + 1].year), field)
                    /\ writes[3 * i + 2]
                         = Assign(<<columns[2], first + i>>,
                                  StringValue(entries[i + 1].month), field)
                    /\ writes[3 * i + 3]
                         = Assign(<<columns[3], first + i>>,
                                  StringValue(entries[i + 1].description), field)

\* seven education entries, a work entry and four licences have been written
C8_Witness ==
    /\ Filled
    /\ Len(EntriesOf(resumeData.educationHistory)) = 7
    /\ Len(EntriesOf(resumeData.workHistory)) >= 1
    /\ Len(Licenses) = 4
    /\ Len(cellWrites) >= 36

\* every field of the record is set
EveryFieldSet == \A field \in DOMAIN resumeData : resumeData[field].has

\* the value of a field as a cell value
FieldValue(field) ==
    IF field = "dependents" THEN NumberValue(resumeData[field].v)
    ELSE IF field \in {"hasSpouse", "supportingSpouse"}
    THEN [type |-> "boolean", text |-> <<>>,
          number |-> IF resumeData[field].v THEN 1 ELSE 0]
    ELSE StringValue(resumeData[field].v)

\* the three cells of row first+i hold entry i
RowHolds(columns, row, entry) ==
    /\ worksheet[<<columns[1], row>>] = StringValue(entry.year)
    /\ worksheet[<<columns[2], row>>] = StringValue(entry.month)
    /\ worksheet[<<columns[3], row>>] = StringValue(entry.description)

RunFrom(t, p, cs) == IF p > Len(t) THEN p ELSE RunEnd(t, p, cs)

\* the date "<digits> NEN <digits> GATSU <digits> HI" (white space allowed
\* before and after each mark) that begins at position i of t, if any
DateAt(t, i) ==
    LET y == RunFrom(t, i, Digits)
        a == RunFrom(t, y, WhiteSpace)
        b == RunFrom(t, a + 1, WhiteSpace)
        m == RunFrom(t, b, Digits)
        c == RunFrom(t, m, WhiteSpace)
        d == RunFrom(t, c + 1, WhiteSpace)
        e == RunFrom(t, d, Digits)
        f == RunFrom(t, e, WhiteSpace)
    IN  [found |-> /\ y > i
                   /\ a <= Len(t) /\ t[a] = "NEN"
                   /\ m > b
                   /\ c <= Len(t) /\ t[c] = "GATSU"
                   /\ e > d
                   /\ f <= Len(t) /\ t[f] = "HI",
         year |-> SubSeq(t, i, y - 1), month |-> SubSeq(t, b, m - 1),
         day |-> SubSeq(t, d, e - 1)]

\* what A5 holds for a date of birth and an age
BirthDateByClaim(t, age) ==
    LET starts == {i \in 1..Len(t) : DateAt(t, i).found}
    IN  IF starts = {} THEN t
        ELSE LET date == DateAt(t, CHOOSE i \in starts : \A j \in starts : i <= j)
             IN  date.year \o <<"NEN", "SP">> \o date.month \o <<"GATSU", "SP">>
                    \o date.day \o <<"HI", "SEI", "SP", "FLPAREN", "SP", "MAN", "SP">>
                    \o (IF age = 0 THEN <<>> ELSE NumberText(age))
                    \o <<"SAI", "SP", "FRPAREN">>

\* the end of the postal mark "POST <3 digits>-<4 digits>" and the white
\* space after it that begins at position i of t; 0 when there is none
PostalMarkEnd(t, i) ==
    LET a == RunEnd(t, i + 1, WhiteSpace)
    IN  IF /\ t[i] = "POST"
           /\ a + 7 <= Len(t)
           /\ \A k \in {0, 1, 2, 4, 5, 6, 7} : t[a + k] \in Digits
           /\ t[a + 3] = "-"
        THEN RunEnd(t, a + 8, WhiteSpace)
        ELSE 0

\* the address without its first postal mark
AddressByClaim(t) ==
    LET starts == {i \in 1..Len(t) : PostalMarkEnd(t, i) > 0}
    IN  IF starts = {} THEN t
        ELSE LET i == CHOOSE s \in starts : \A j \in starts : s <= j
             IN  SubSeq(t, 1, i - 1) \o SubSeq(t, PostalMarkEnd(t, i), Len(t))

\* what the mapped cell of a scalar field holds when the field is written
WrittenValue(field) ==
    CASE field = "birthDate" ->
            StringValue(BirthDateByClaim(resumeData.birthDate.v, resumeData.age.v))
      [] field = "postalCode" -> StringValue(<<"POST", "SP">> \o resumeData.postalCode.v)
      [] field = "address" -> StringValue(AddressByClaim(resumeData.address.v))
      [] field \in {"hasSpouse", "supportingSpouse"} ->
            StringValue(IF resumeData[field].v THEN <<"AA", "RI">> ELSE <<"NA", "SI">>)
      [] OTHER -> FieldValue(field)

\* an empty string is not written
Written(field) ==
    field \in {"dependents", "hasSpouse", "supportingSpouse"} \/ resumeData[field].v # <<>>

C10_NoSheet1ThrowsBeforeAnyEffect ==
    ("Sheet1" \notin templateSheets /\ excelPc # "called"
        /\ excelError # "xlsx.readFile") =>
            /\ excelPc = "thrown"
            /\ excelError = Sheet1Error
            /\ cellWrites = <<>>
            /\ worksheet = Template
            /\ ~tempFile
            /\ uploads = 0

\* a template with Sheet2 only, and a record with a name
C10_Witness ==
    /\ templateSheets = {"Sheet2"}
    /\ excelPc = "thrown"
    /\ excelError = Sheet1Error
    /\ resumeData.name.has

\* C11: whatever string the history key holds and whichever call of
\* localStorage throws, no call of saveOCRResult, getStoredOCRResults,
\* getStoredOCRResultById, deleteStoredOCRResult or clearAllStoredOCRResults
\* throws; a read that failed returns the empty list, and a save whose
\* setItem failed leaves the stored data as it was.
C11_StorageFailuresNeverThrow ==
    /\ ~lastCall.threw
    /\ (lastCall.op = "get" /\ lastCall.readFailed) => lastCall.list = EmptyArray
    /\ (lastCall.op = "save" /\ lastCall.writeFailed) => lastCall.kept

----------------------------------------------------------------------------
(* Properties of ExportOptions.                                            *)

\* the OCR result has no pages list, or an empty one
NoPageList ==
    ocrResult.kind = "nopages" \/ (ocrResult.kind = "doc" /\ ocrResult.pages = <<>>)

\* C12: in an export of an OCR result without pages, extraction throws,
\* generateResumeExcel is never called (no record reaches it, no cell is
\* written, nothing is uploaded or downloaded), and when the export has
\* ended exportError holds the message of the extraction error.
C12_NoPagesExportShowsError ==
    NoPageList =>
        /\ extractPc \in {"idle", "ready", "thrown"}
        /\ exportPc # "generating"
        /\ excelPc = "idle"
        /\ resumeData = NoResume
        /\ cellWrites = <<>>
        /\ uploads = 0
        /\ downloads = 0
        /\ (exports > 0 /\ exportPc = "idle") =>
                /\ exportError = Some(ExtractError)
                /\ ~isExporting

\* an export of a result with an empty pages list has ended
C12_Witness ==
    /\ ocrResult = Doc(<<>>)
    /\ exports > 0
    /\ exportPc = "idle"
    /\ extractPc = "thrown"
    /\ exportError = Some(ExtractError)

\* the pages' text in page order with a blank line between two pages; a
\* page without markdown counts as the empty text
JoinByClaim(pages) ==
    Flatten([i \in 1..(2 * Len(pages) - 1) |->
                IF i % 2 = 0 THEN <<"LF", "LF">>
                ELSE IF pages[(i + 1) \div 2].hasMarkdown
                     THEN pages[(i + 1) \div 2].markdown
                     ELSE <<>>])

WriteRank ==
    [educationHistory |-> 1, workHistory |-> 2, licenses |-> 3,
     healthCondition |-> 4, hobbies |-> 5, nearestStation |-> 6]

\* C26: the assignments are made in the order education rows, work rows,
\* licence rows, I17, I18, I19, and the later assignment to a cell decides
\* its value: with more than 6 education entries, row 20+j of columns A to C
\* holds work entry j for every j below the length of the work list; with
\* more than 3 licences, I17, I18 and I19 hold healthCondition, hobbies and
\* nearestStation whenever the field is set (present and not empty).
C26_LaterWriteWins ==
    Filled =>
        /\ \A i, j \in 1..Len(cellWrites) :
                (i < j /\ cellWrites[i].field \in DOMAIN WriteRank
                       /\ cellWrites[j].field \in DOMAIN WriteRank)
                => WriteRank[cellWrites[i].field] <= WriteRank[cellWrites[j].field]
        /\ Len(EntriesOf(resumeData.educationHistory)) > 6 =>
                \A j \in 0..(Len(EntriesOf(resumeData.workHistory)) - 1) :
                    RowHolds(<<"A", "B", "C">>, 20 + j, resumeData.workHistory.v[j + 1])
        /\ Len(EntriesOf(resumeData.licenses)) > 3 =>
                \A field \in {"healthCondition", "hobbies", "nearestStation"} :
                    (resumeData[field].has /\ resumeData[field].v # <<>>)
                    => worksheet[MappedCell[field]] = StringValue(resumeData[field].v)

\* seven education entries, two work entries, four licences and a health
\* condition have been written
C26_Witness ==
    /\ Filled
    /\ Len(EntriesOf(resumeData.educationHistory)) = 7
    /\ Len(EntriesOf(resumeData.workHistory)) = 2
    /\ Len(EntriesOf(resumeData.licenses)) = 4
    /\ resumeData.healthCondition.has
    /\ worksheet[<<"A", 20>>] = StringValue(resumeData.workHistory.v[1].year)
    /\ worksheet[<<"I", 17>>] = StringValue(resumeData.healthCondition.v)

----------------------------------------------------------------------------
(* Properties of the steps of generateResumeExcel.                         *)

\* the step that follows each step of a call
StepAfter ==
    [called |-> "filled", filled |-> "written", written |-> "read",
     read |-> "uploaded", uploaded |-> "returned"]

\* C23: in one call the steps occur in the order fill cells, write the temp
\* file, read it, upload, delete it, return; each step is taken once, a step
\* that fails ends the call with its error, the upload is attempted once and
\* never again, and after a failed upload nothing was uploaded and no URL
\* is returned.
C23_StepsInOrderUploadOnce ==
    /\ [][/\ excelPc \in DOMAIN StepAfter
          /\ excelPc' \in {StepAfter[excelPc], "thrown"}]_excelVars
    /\ [][cellWrites' # cellWrites => excelPc = "called"]_vars
    /\ [][(tempFile' /\ ~tempFile) => excelPc = "filled"]_vars
    /\ [][(tempFile /\ ~tempFile') => (excelPc = "uploaded" /\ excelPc' = "returned")]_vars
    /\ [][uploads' # uploads =>
            (excelPc = "read" /\ excelPc' = "uploaded" /\ uploads' = uploads + 1)]_vars
    /\ [](uploads <= 1)
    /\ []((excelPc = "thrown" /\ excelError = "put") => uploads = 0)
    /\ [](excelPc = "returned" => (uploads = 1 /\ excelError = ""))

\* the upload has failed: the call has ended with the upload's error
C23_Witness ==
    /\ excelPc = "thrown"
    /\ excelError = "put"
    /\ cellWrites # <<>>
    /\ tempFile

\* C30: whenever generateResumeExcel has ended, by returning the URL or by
\* throwing at a step after the temp file was written (the read, the upload
\* or the delete), the temp file no longer exists.
C30_TempFileGoneAtEnd ==
    (\/ excelPc = "returned"
     \/ excelPc = "thrown" /\ excelError \in {"fs.readFile", "put", "fs.unlink"})
    => ~tempFile

----------------------------------------------------------------------------
(* Properties of the exports of ExportOptions.                             *)

\* an export is in flight
InFlight == exportPc # "idle"

\* the step ends an export that failed: the extraction or the generation
\* threw, or the download did
ExportFails ==
    \/ exportPc = "extracting" /\ extractPc = "thrown"
    \/ exportPc = "generating" /\ excelPc = "thrown"
    \/ exportPc = "generating" /\ excelPc = "returned" /\ downloads' = downloads

\* C29: at most one export is in flight: an export starts only while
\* isExporting is false and none is in flight, isExporting is true exactly
\* while an export is in flight, and it is false again when the export ends,
\* whether it succeeded or failed at extraction, generation or download;
\* exportError is cleared when an export starts, stays null while it runs,
\* and is non-null when it ends exactly when it failed.
C29_OneExportInFlight ==
    /\ [](isExporting <=> InFlight)
    /\ [](isExporting => ~exportError.has)
    /\ [][exports' # exports =>
            /\ ~isExporting /\ ~InFlight
            /\ exports' = exports + 1
            /\ isExporting' /\ ~exportError'.has]_vars
    /\ [][(isExporting /\ ~isExporting') =>
            /\ exportPc' = "idle"
            /\ exportError'.has <=> ExportFails]_vars
    /\ [][(~isExporting /\ ~isExporting') => exportError' = exportError]_vars

\* the second export has ended without an error after the first one failed
\* at its download
C29_Witness ==
    /\ exports = 2
    /\ ~isExporting
    /\ ~exportError.has
    /\ downloads = 1
    /\ uploads = 2

----------------------------------------------------------------------------
(* Properties of saveOCRResult called in two tabs at once                  *)

\* the list a tab writes: its new entry, then what it read, ten at most
ListOfWriter(t) ==
    [i \in 1..(IF Len(tabExisting[t]) < 10 THEN Len(tabExisting[t]) + 1 ELSE 10) |->
        IF i = 1 THEN tabEntry[t] ELSE tabExisting[t][i - 1]]

\* the tabs whose call has returned, and those of them that stored a list
TabsReturned == {t \in Tabs : tabPc[t] \in {"stored", "failed"}}

Writers == {t \in Tabs : tabPc[t] = "stored"}

\* the positions of the stored list that hold the new entry of a tab
NewPositions ==
    {i \in 1..Len(storage.items) : \E t \in Tabs : storage.items[i] = tabEntry[t]}

\* what was stored before either tab wrote: what the tab that read first read
StoredAtFirst ==
    LET first == CHOOSE t \in Tabs :
                     \A i \in 1..Len(tabExisting[t]), u \in Tabs :
                         tabExisting[t][i] # tabEntry[u]
    IN  tabExisting[first]

\* C22: when the reads and writes of saveOCRResult in two tabs interleave,
\* the stored value is always a complete list (ten entries at most, the
\* newest first), every value stored is the list of the tab that wrote it,
\* and when both calls have returned the stored value is the list of a
\* writer in which every entry stored before is kept in its order, but for
\* those pushed past the tenth place; the new entry of the other tab may be
\* missing.
C22_LastWriterWins ==
    /\ [](/\ storage.json \in {"none", "array"}
          /\ Len(storage.items) <= 10
          /\ \A i, j \in 1..Len(storage.items) :
                i < j => storage.items[i].timestamp >= storage.items[j].timestamp)
    /\ [][storage' # storage =>
             \E t \in Tabs : /\ tabPc[t] = "read"
                             /\ tabPc'[t] = "stored"
                             /\ storage' = JSONstringify(ListOfWriter(t))]_vars
    /\ [](TabsReturned = Tabs =>
             /\ Writers = {} => storage.items = StoredAtFirst
             /\ Writers # {} => \E t \in Writers : storage.items = ListOfWriter(t)
             /\ \A i \in 1..Len(StoredAtFirst) :
                    i + Cardinality(NewPositions) <= 10 =>
                        storage.items[i + Cardinality(NewPositions)] = StoredAtFirst[i])

\* both tabs read the full history of ten entries before either wrote, and
\* both wrote: the list of the second writer is stored, the entry of the
\* first writer is lost and the oldest entry is evicted
C22_Witness ==
    /\ Writers = Tabs
    /\ Len(tabExisting["a"]) = 10
    /\ tabExisting["b"] = tabExisting["a"]
    /\ storage.items = ListOfWriter("b")
    /\ \A i \in 1..Len(storage.items) : storage.items[i] # tabEntry["a"]

----------------------------------------------------------------------------
(* Properties of copyToClipboard of OcrResultView                          *)

NoCopyTimer == \A kind \in TimerKinds : copyTimers[kind] = 0

\* C24: a clipboard write that is rejected changes neither copyingAll nor
\* copyingPage and starts no other write; a write that is fulfilled sets
\* copyingAll (all pages) or copyingPage to the page (one page); and when
\* no timer of copyToClipboard is pending, copyingAll is false and
\* copyingPage is null.
C24_CopyIndicators ==
    /\ [][\A pageIndex \in CopyTargets :
             writeTextSettled(pageIndex, TRUE) =>
                 /\ copyingAll' = copyingAll
                 /\ copyingPage' = copyingPage
                 /\ clipboardWrites' = clipboardWrites
                 /\ \A c \in CopyTargets : copyPending'[c] <= copyPending[c]]_vars
    /\ [][writeTextSettled(CopyAll, FALSE) => copyingAll' = TRUE]_vars
    /\ [][\A pageIndex \in ViewPages :
             writeTextSettled(pageIndex, FALSE) => copyingPage' = Some(pageIndex)]_vars
    /\ [](NoCopyTimer => copyingAll = FALSE /\ copyingPage = None)

\* as many copies as the model follows were started, every write has
\* settled and every timer has fired: no indicator is shown
C24_Witness ==
    /\ clipboardWrites = MaxCopies
    /\ \A c \in CopyTargets : copyPending[c] = 0
    /\ NoCopyTimer
    /\ copyingAll = FALSE
    /\ copyingPage = None

----------------------------------------------------------------------------
(* Properties of the visible pages of OcrResultView                        *)

\* C28: visiblePages is strictly ascending and holds only pages whose
\* latest intersection event was intersecting; when it is not empty and its
\* effect has run, currentPageDisplay is the text of the smallest visible
\* index plus 1; and a step that leaves visiblePages empty leaves
\* currentPageDisplay as it was.
C28_VisiblePagesAscending ==
    /\ [](\A i, j \in 1..Len(visiblePages) : i < j => visiblePages[i] < visiblePages[j])
    /\ [](\A i \in 1..Len(visiblePages) : intersecting[visiblePages[i]] = "intersecting")
    /\ []((Len(visiblePages) > 0 /\ ~displayPending) =>
             currentPageDisplay =
                 NumberText(Minimum({visiblePages[i] : i \in 1..Len(visiblePages)}) + 1))
    /\ [][visiblePages' = <<>> => currentPageDisplay' = currentPageDisplay]_vars

\* the first page went out of view after it was shown, the second and the
\* third are in view and the effect has run: the display reads 2
C28_Witness ==
    /\ visiblePages = <<1, 2>>
    /\ intersecting[0] = "away"
    /\ ~displayPending
    /\ currentPageDisplay = NumberText(2)

----------------------------------------------------------------------------
(* Properties of the rendering of DataTransfer                             *)

\* C27: when a field is active and selectedText is not empty, the rendering
\* of DataTransfer comes to rest, with no render pending, and the active
\* field then holds the selected text; and no render changes another field
\* than the active one.
C27_RenderingSettles ==
    /\ [](\A fieldName \in TransferFieldNames,
             text \in {selected \in SelectedTexts : Truthy(selected)} :
             (activeField = Some(fieldName) /\ selectedText = text) =>
                 <>(transferPc = "rendered" /\ transferFields[fieldName] = text.v))
    /\ [][\A fieldName \in TransferFieldNames :
             activeField # Some(fieldName) =>
                 transferFields'[fieldName] = transferFields[fieldName]]_vars
====
